---- MODULE Spec2Model ----
(***************************************************************************)
(* The article store (SQLite table `articles`) shared by the intake        *)
(* pipeline (telegram_poster.py) and the enrichment pipeline               *)
(* (wordpress_poster.py), the two loops that use it, and the retention     *)
(* sweep.  External services (feed, OpenAI, Telegram, Gemini, WordPress)   *)
(* are modelled by their possible answers.                                 *)
(*                                                                         *)
(* Time is counted in weeks: CURRENT_TIMESTAMP and datetime.now() are read *)
(* from the same clock `now`.                                              *)
(***************************************************************************)
EXTENDS Integers, Sequences, FiniteSets, TLC

\* Python None / SQL NULL of a text value
NULL == "NULL"
\* Python None / SQL NULL of a link or an id: a link is modelled by the id it
\* ends in (message_id, post id), which is at least 1
NoLink == 0

\* ---------------------------------------------------------------- bounds
\* messages the Telegram channel takes, posts the WordPress site takes
MaxMessages == 2
MaxPosts == 2
\* the last week of the clock
MaxNow == 2
\* entries of one feed
MaxEntries == 2
\* the largest limit a caller of fetch_pending_articles passes
MaxLimit == 2
\* seconds the parsing of a page can take
MaxParse == 8
\* concurrent callers of save_article_to_db
NumCallers == 4
\* names in one list of suggested categories or tags
MaxNames == 3

\* ---------------------------------------------------------- configuration
\* len(RSS_FEEDS) and ARTICLES_PER_RUN (the batch size) of the environment
NumFeeds == 2
ARTICLES_PER_RUN == 2

\* ------------------------------------------------------ program constants
\* timedelta(days=7) in cleanup_old_articles: one week
RETENTION_WEEKS == 1
\* for attempt in range(3) in publish_to_telegram
PUBLISH_ATTEMPTS == 3
\* LIMIT 50 of the recent-titles query
TITLES_LIMIT == 50

\* ------------------------------------------------------------ input data
\* feed entries {link, title} the feed source can produce
Entries == { [link |-> "a", title |-> "A"], [link |-> "b", title |-> "B"] }
Links == { e.link : e \in Entries }
\* the entries a parsed feed can hold: the entries above and an entry without
\* a link (feedparser leaves the attribute out; reading it raises)
FeedEntries == Entries \cup { [link |-> NULL, title |-> "C"] }
\* the og:image extract_main_image finds on the page of a link: the page of
\* "a" carries a usable image, the page of "b" none
PageImage(link) == IF link = "a" THEN "img" ELSE NULL

Statuses == {"pending", "published", "failed"}

VARIABLES
    articles,          \* the table: rowid -> row
    now,               \* the clock, in weeks
    channel,           \* Telegram channel: message_id -> source link of the post
    wpPosts,           \* WordPress posts: post id -> the article it was made from
    \* intake loop (telegram_poster.main)
    ipc,               \* "start" | "exit" | "wait" | "feed" | "entries" |
                       \* "cleanup" | "except"
    feeds_left,        \* feeds of RSS_FEEDS still to poll in this cycle
    entries,           \* entries of the current feed still to process
    existing_titles,   \* titles loaded at the start of the current feed poll
    \* enrichment loop (wordpress_poster.main_loop)
    wpc,               \* "start" | "exit" | "sleep" | "batch"
    pending_articles,  \* rows fetched for the current batch, still to process
    \* direct callers of the store operations (SpecStore, SpecRace)
    lastCall,          \* the last store operation called and what it returned
    racers,            \* concurrent callers of save_article_to_db: where each is
    raceEntry,         \* the entry they all save
    dbLock,            \* holder of SQLite's write lock (0: free)
    env                \* the settings each process found in its environment

vars == << articles, now, channel, wpPosts, ipc, feeds_left, entries,
           existing_titles, wpc, pending_articles, lastCall, racers, raceEntry,
           dbLock, env >>

intakeVars == << ipc, feeds_left, entries, existing_titles >>
enrichVars == << wpc, pending_articles >>
callerVars == << lastCall, racers, raceEntry, dbLock >>

\* ------------------------------------------------------------- helpers
Max(S) == CHOOSE x \in S : \A y \in S : y <= x
Min2(a, b) == IF a <= b THEN a ELSE b

\* all orderings of the rows `ids` of table t that respect ORDER BY datetime
\* (ascending when asc, descending otherwise); rows with equal datetime come
\* in any order
OrderedBy(t, ids, asc) ==
    { s \in [1..Cardinality(ids) -> ids] :
        /\ \A i, j \in 1..Cardinality(ids) : i # j => s[i] # s[j]
        /\ \A i, j \in 1..Cardinality(ids) :
              i < j => IF asc THEN t[s[i]].datetime <= t[s[j]].datetime
                              ELSE t[s[i]].datetime >= t[s[j]].datetime }

\* LIMIT n of SQLite: a negative n means no limit
Limit(s, n) == IF n < 0 THEN s ELSE SubSeq(s, 1, Min2(n, Len(s)))

\* ------------------------------------------------- settings and start-up
\* the settings each script reads with os.getenv and has no default for
IntakeSettings == {"DB_FILE_PATH", "RSS_FEEDS_URLS", "OPENAI_API_KEY",
                   "TELEGRAM_BOT_API_KEY", "CHANNEL_ID"}
EnrichSettings == {"DB_FILE_PATH", "WP_BASE_URL", "WP_USER", "WP_APP_PASSWORD",
                   "GOOGLE_GEMINI_API_KEY", "GOOGLE_SEARCH_API_KEY", "GOOGLE_CSE_ID"}
\* the settings whose placeholder the enrichment script looks for
GoogleSettings == {"GOOGLE_GEMINI_API_KEY", "GOOGLE_SEARCH_API_KEY", "GOOGLE_CSE_ID"}
Placeholder(s) ==
    CASE s = "GOOGLE_GEMINI_API_KEY" -> "YOUR_GEMINI_API_KEY"
      [] s = "GOOGLE_SEARCH_API_KEY" -> "YOUR_SEARCH_API_KEY"
      [] OTHER -> "YOUR_CSE_ID"

\* a setting is unset (os.getenv returns None), set to the empty string, or
\* set to a value; `not X` is true of the first two
Unset(v) == v = NULL \/ v = ""

\* environments: every setting has a value, or one setting of one script is
\* unset, empty or left at its placeholder; gemini_init: genai.configure
\* and GenerativeModel do not raise
AllSet(S) == [s \in S |-> "value"]
IntakeEnvs == {AllSet(IntakeSettings)} \cup
    { [AllSet(IntakeSettings) EXCEPT ![s] = v] : s \in IntakeSettings, v \in {NULL, ""} }
EnrichEnvs == {AllSet(EnrichSettings)} \cup
    { [AllSet(EnrichSettings) EXCEPT ![s] = v] : s \in EnrichSettings, v \in {NULL, ""} } \cup
    { [AllSet(EnrichSettings) EXCEPT ![s] = Placeholder(s)] : s \in GoogleSettings }
Envs ==
    { [intake |-> i, enrich |-> e, gemini_init |-> g] :
        i \in IntakeEnvs, e \in EnrichEnvs, g \in BOOLEAN }
\* the environment in which both scripts start their loops
GoodEnv ==
    [intake |-> AllSet(IntakeSettings), enrich |-> AllSet(EnrichSettings),
     gemini_init |-> TRUE]

\* telegram_poster.py from its first line to main(): exit(1) when the feed
\* list, the OpenAI key, the bot key or the channel id is unset or empty;
\* DB_FILE is not checked: sqlite3.connect(None) in setup_database raises a
\* TypeError that ends the process, sqlite3.connect("") opens a private
\* temporary database and the script goes on to main()
telegram_poster_startup(e) ==
    IF \E s \in {"RSS_FEEDS_URLS", "OPENAI_API_KEY", "TELEGRAM_BOT_API_KEY",
                 "CHANNEL_ID"} : Unset(e[s])
    THEN "exit"
    ELSE IF e["DB_FILE_PATH"] = NULL THEN "exit"
    ELSE "wait"

\* gemini_model after the module-level initialisation: None when the key is
\* unset or the client raised
gemini_model(e, gemini_init) ==
    ~Unset(e["GOOGLE_GEMINI_API_KEY"]) /\ gemini_init

\* wordpress_poster.py __main__ and the first lines of main_loop: exit(1)
\* when one of the seven settings is unset or empty, when a Google setting
\* is left at its placeholder, or when gemini_model is None
wordpress_poster_startup(e, gemini_init) ==
    IF \E s \in EnrichSettings : Unset(e[s]) THEN "exit"
    ELSE IF \E s \in GoogleSettings : e[s] = Placeholder(s) THEN "exit"
    ELSE IF ~gemini_model(e, gemini_init) THEN "exit"
    ELSE "sleep"

\* ------------------------------------------------------ the article store
\* rowid of a new row of an INTEGER PRIMARY KEY table without AUTOINCREMENT
NextRowId(t) == IF DOMAIN t = {} THEN 1 ELSE Max(DOMAIN t) + 1

\* UNIQUE constraint on link
LinkStored(t, link) == \E id \in DOMAIN t : t[id].link = link

\* variant: the parameters of the INSERT in another order
InsertArticle_SwappedParams(t, link, title, telegram_link, cleaned_text, image_url, ts, fault) ==
    IF fault THEN [table |-> t, exc |-> "OperationalError"]
    ELSE IF LinkStored(t, title) THEN [table |-> t, exc |-> "IntegrityError"]
    ELSE [table |-> [id \in DOMAIN t \cup {NextRowId(t)} |->
                        IF id \in DOMAIN t THEN t[id]
                        ELSE [link |-> title, title |-> link, keywords |-> NULL,
                              telegram_link |-> telegram_link, datetime |-> ts,
                              cleaned_text |-> cleaned_text, image_url |-> image_url,
                              status_wp |-> "pending", wordpress_link |-> NoLink]],
          exc |-> "ok"]

\* variant: the INSERT on a table whose link column is not UNIQUE
InsertArticle_NoUnique(t, link, title, telegram_link, cleaned_text, image_url, ts, fault) ==
    IF fault THEN [table |-> t, exc |-> "OperationalError"]
    ELSE [table |-> [id \in DOMAIN t \cup {NextRowId(t)} |->
                        IF id \in DOMAIN t THEN t[id]
                        ELSE [link |-> link, title |-> title, keywords |-> NULL,
                              telegram_link |-> telegram_link, datetime |-> ts,
                              cleaned_text |-> cleaned_text, image_url |-> image_url,
                              status_wp |-> "pending", wordpress_link |-> NoLink]],
          exc |-> "ok"]

\* the INSERT statement of save_article_to_db, executed at time ts:
\* the storage layer answers "ok", "IntegrityError" or, on a storage fault,
\* "OperationalError"
InsertArticle(t, link, title, telegram_link, cleaned_text, image_url, ts, fault) ==
    IF fault THEN [table |-> t, exc |-> "OperationalError"]
    ELSE IF LinkStored(t, link) THEN [table |-> t, exc |-> "IntegrityError"]
    ELSE [table |-> [id \in DOMAIN t \cup {NextRowId(t)} |->
                        IF id \in DOMAIN t THEN t[id]
                        ELSE [link |-> link, title |-> title, keywords |-> NULL,
                              telegram_link |-> telegram_link, datetime |-> ts,
                              cleaned_text |-> cleaned_text, image_url |-> image_url,
                              status_wp |-> "pending", wordpress_link |-> NoLink]],
          exc |-> "ok"]

\* variant: the IntegrityError handler updates the stored record instead of
\* skipping
save_article_to_db_Upsert(t, link, title, cleaned_text, image_url, telegram_link, ts, fault) ==
    LET r == InsertArticle(t, link, title, telegram_link, cleaned_text, image_url, ts, fault)
    IN  CASE r.exc = "ok" -> [table |-> r.table, outcome |-> "inserted", raised |-> NULL]
          [] r.exc = "IntegrityError" ->
                [table |-> [id \in DOMAIN t |->
                              IF t[id].link = link
                              THEN [t[id] EXCEPT !.telegram_link = telegram_link,
                                                 !.datetime = ts,
                                                 !.status_wp = "pending",
                                                 !.wordpress_link = NoLink]
                              ELSE t[id]],
                 outcome |-> "duplicate", raised |-> NULL]
          [] OTHER -> [table |-> t, outcome |-> "error", raised |-> NULL]

\* save_article_to_db: the INSERT and its three handlers
save_article_to_db(t, link, title, cleaned_text, image_url, telegram_link, ts, fault) ==
    LET r == InsertArticle(t, link, title, telegram_link, cleaned_text, image_url, ts, fault)
    IN  CASE r.exc = "ok" -> [table |-> r.table, outcome |-> "inserted", raised |-> NULL]
          [] r.exc = "IntegrityError" ->
                [table |-> t, outcome |-> "duplicate", raised |-> NULL]
          [] OTHER -> [table |-> t, outcome |-> "error", raised |-> NULL]

\* variant: DELETE ... WHERE datetime <= cutoff_date
cleanup_old_articles_Inclusive(t, clock) ==
    LET cutoff_date == clock - RETENTION_WEEKS
    IN  [id \in { i \in DOMAIN t : ~(t[i].datetime <= cutoff_date) } |-> t[id]]

\* cleanup_old_articles: DELETE FROM articles WHERE datetime < cutoff_date
cleanup_old_articles(t, clock) ==
    LET cutoff_date == clock - RETENTION_WEEKS
    IN  [id \in { i \in DOMAIN t : ~(t[i].datetime < cutoff_date) } |-> t[id]]

\* variant: the 'published' branch runs the UPDATE of the 'failed' branch
update_article_status_NoLink(t, article_id, status, wordpress_link, dbError) ==
    IF dbError THEN [table |-> t, ok |-> FALSE]
    ELSE IF status \in {"published", "failed"} THEN
        [table |-> [id \in DOMAIN t |->
                       IF id = article_id
                       THEN [t[id] EXCEPT !.status_wp = status]
                       ELSE t[id]],
         ok |-> TRUE]
    ELSE [table |-> t, ok |-> FALSE]

\* variant: the UPDATE of the 'failed' branch also resets telegram_link
update_article_status_ResetsTelegram(t, article_id, status, wordpress_link, dbError) ==
    IF dbError THEN [table |-> t, ok |-> FALSE]
    ELSE IF status = "published" THEN
        [table |-> [id \in DOMAIN t |->
                       IF id = article_id
                       THEN [t[id] EXCEPT !.status_wp = status,
                                          !.wordpress_link = wordpress_link]
                       ELSE t[id]],
         ok |-> TRUE]
    ELSE IF status = "failed" THEN
        [table |-> [id \in DOMAIN t |->
                       IF id = article_id
                       THEN [t[id] EXCEPT !.status_wp = status,
                                          !.telegram_link = NoLink]
                       ELSE t[id]],
         ok |-> TRUE]
    ELSE [table |-> t, ok |-> FALSE]

\* variant: no `else` branch, a status that is not 'published' is written by
\* the UPDATE of the 'failed' branch
update_article_status_AnyStatus(t, article_id, status, wordpress_link, dbError) ==
    IF dbError THEN [table |-> t, ok |-> FALSE]
    ELSE IF status = "published" THEN
        [table |-> [id \in DOMAIN t |->
                       IF id = article_id
                       THEN [t[id] EXCEPT !.status_wp = status,
                                          !.wordpress_link = wordpress_link]
                       ELSE t[id]],
         ok |-> TRUE]
    ELSE
        [table |-> [id \in DOMAIN t |->
                       IF id = article_id
                       THEN [t[id] EXCEPT !.status_wp = status]
                       ELSE t[id]],
         ok |-> TRUE]

\* update_article_status: UPDATE ... WHERE id = ?; dbError is a sqlite3.Error
update_article_status(t, article_id, status, wordpress_link, dbError) ==
    IF dbError THEN [table |-> t, ok |-> FALSE]
    ELSE IF status = "published" THEN
        [table |-> [id \in DOMAIN t |->
                       IF id = article_id
                       THEN [t[id] EXCEPT !.status_wp = status,
                                          !.wordpress_link = wordpress_link]
                       ELSE t[id]],
         ok |-> TRUE]
    ELSE IF status = "failed" THEN
        [table |-> [id \in DOMAIN t |->
                       IF id = article_id
                       THEN [t[id] EXCEPT !.status_wp = status]
                       ELSE t[id]],
         ok |-> TRUE]
    ELSE [table |-> t, ok |-> FALSE]

\* variant: the SELECT without its WHERE clause
PendingIds_AnyStatus(t) == DOMAIN t

\* the rows a SELECT ... WHERE status_wp = 'pending' sees
PendingIds(t) == { id \in DOMAIN t : t[id].status_wp = "pending" }

\* one fetched row as the dict main_loop reads (datetime is carried only to
\* tell which stored row the dict was read from)
ArticleDict(t, id) ==
    [id |-> id, link |-> t[id].link, title |-> t[id].title,
     cleaned_text |-> t[id].cleaned_text, image_url |-> t[id].image_url,
     datetime |-> t[id].datetime]

\* variant: ORDER BY datetime DESC
fetch_pending_articles_Desc(t, limit, dbError) ==
    IF dbError THEN { << >> }
    ELSE { [i \in 1..Len(Limit(s, limit)) |-> ArticleDict(t, s[i])] :
              s \in OrderedBy(t, PendingIds(t), FALSE) }

\* fetch_pending_articles: the possible results of
\* SELECT ... WHERE status_wp = 'pending' ORDER BY datetime ASC LIMIT ?
\* ([] on a sqlite3.Error)
fetch_pending_articles(t, limit, dbError) ==
    IF dbError THEN { << >> }
    ELSE { [i \in 1..Len(Limit(s, limit)) |-> ArticleDict(t, s[i])] :
              s \in OrderedBy(t, PendingIds(t), TRUE) }

\* SELECT title FROM articles ORDER BY datetime DESC LIMIT 50
recent_titles(t) ==
    { [i \in 1..Len(Limit(s, TITLES_LIMIT)) |-> t[s[i]].title] :
         s \in OrderedBy(t, DOMAIN t, FALSE) }

\* ------------------------------------------------- intake: external answers
\* yes / no / failure of a judge or classifier
Tri == {"True", "False", NULL}

\* what the chat model can answer to a yes/no prompt ("error": the request
\* raised, which includes a client that was never initialised)
ModelReplies == {"Yes", "yes", "No", "error"}
\* reply.strip().lower()
Lower(reply) == CASE reply = "Yes" -> "yes" [] reply = "No" -> "no" [] OTHER -> reply

\* is_title_similar_with_chatgpt: decision == "yes", None when the request raised
is_title_similar_with_chatgpt(reply) ==
    IF reply = "error" THEN NULL
    ELSE IF Lower(reply) = "yes" THEN "True" ELSE "False"

\* filter_article: None without a request when there is no client, else
\* answer == "yes", None when the request raised
filter_article(client, reply) ==
    IF ~client THEN NULL
    ELSE IF reply = "error" THEN NULL
    ELSE IF Lower(reply) = "yes" THEN "True" ELSE "False"

\* variant: for attempt in range(4)
publish_to_telegram_FourAttempts(ch, link, botOk, fails) ==
    IF ~botOk THEN [channel |-> ch, telegram_link |-> NoLink, attempts |-> 0]
    ELSE [channel |-> Append(ch, link), telegram_link |-> Len(ch) + 1,
          attempts |-> fails + 1]

\* publish_to_telegram: `fails` send attempts raise before one succeeds; the
\* message gets the next message_id of the channel
publish_to_telegram(ch, link, botOk, fails) ==
    IF ~botOk THEN [channel |-> ch, telegram_link |-> NoLink, attempts |-> 0]
    ELSE IF fails < PUBLISH_ATTEMPTS
    THEN [channel |-> Append(ch, link), telegram_link |-> Len(ch) + 1,
          attempts |-> fails + 1]
    ELSE [channel |-> ch, telegram_link |-> NoLink, attempts |-> PUBLISH_ATTEMPTS]

\* variant: the text is sent to the model whatever it holds
generate_content_NoBlankCheck(cleaned_text, answer) == answer

\* generate_content: None for blank text (`not cleaned_text.strip()`; the only
\* blank text clean_html returns is the empty string, its lines are stripped
\* and the empty ones dropped), else what the model returns
generate_content(cleaned_text, answer) ==
    IF cleaned_text = "" THEN NULL ELSE answer

\* variant: the link lookup is not made
already_exists_Never(t, link) == FALSE

\* SELECT 1 FROM articles WHERE link = ? ... if already_exists: continue
already_exists(t, link) == \E id \in DOMAIN t : t[id].link = link

\* variant: anything but an explicit no skips the entry
is_too_similar_FailClosed(similar) == similar # "False"

\* if is_title_similar_with_chatgpt(new_title, existing_titles): continue
is_too_similar(similar) == similar = "True"

\* variant: only an explicit no rejects the entry
is_filtered_out_FailOpen(filter) == filter = "False"

\* if not filter_article(cleaned_text, link): continue
is_filtered_out(filter) == filter # "True"

\* variant: if post is None: continue
is_generation_failed_NoneOnly(post) == post = NULL

\* if not post: continue
is_generation_failed(post) == post = NULL \/ post = ""

\* variant: save_article_to_db is called whatever publish_to_telegram returned
process_entry_SaveAlways(t, ch, entry, ts, x) ==
    LET done(table, channel1, why, calls) ==
            [effect |-> [table |-> table, channel |-> channel1, aborted |-> FALSE],
             outcome |-> why, calls |-> calls]
        skip(why, calls) == done(t, ch, why, calls)
        toFilter == << "exists_by_link", "similarity", "fetch", "clean", "filter" >>
        toPublish == toFilter \o << "generate", "extract_image", "publish" >>
        post == generate_content(x.cleaned_text, x.gen)
        pub == x.published
        saved == save_article_to_db(t, entry.link, entry.title, x.cleaned_text,
                                    x.photo_url, pub.telegram_link, ts, x.fault)
    IN  IF entry.link = NULL
        THEN [effect |-> [table |-> t, channel |-> ch, aborted |-> TRUE],
              outcome |-> "raised", calls |-> << >>]
        ELSE IF already_exists(t, entry.link)
        THEN skip("already_exists", << "exists_by_link" >>)
        ELSE IF is_too_similar(x.similar)
        THEN skip("too_similar", << "exists_by_link", "similarity" >>)
        ELSE IF ~x.fetched
        THEN skip("exception", << "exists_by_link", "similarity", "fetch" >>)
        ELSE IF is_filtered_out(x.filter) THEN skip("filtered_out", toFilter)
        ELSE IF is_generation_failed(post)
        THEN skip("generation_failed", toFilter \o << "generate" >>)
        ELSE done(saved.table, pub.channel,
                  IF saved.outcome = "inserted" THEN "STORED"
                  ELSE "save_" \o saved.outcome,
                  toPublish \o << "save" >>)

\* the body of the `for entry in feed.entries` loop of process_rss_feed, for
\* the external answers x (x.published: what publish_to_telegram returns when
\* it is called).  calls: the steps the iteration went through, in order.
\* aborted: an exception left the loop body: for an entry without a link
\* `link = entry.link` raises an AttributeError, and the handler, which logs
\* entry.link, raises it again
process_entry(t, ch, entry, ts, x) ==
    LET done(table, channel1, why, calls) ==
            [effect |-> [table |-> table, channel |-> channel1, aborted |-> FALSE],
             outcome |-> why, calls |-> calls]
        skip(why, calls) == done(t, ch, why, calls)
        toFilter == << "exists_by_link", "similarity", "fetch", "clean", "filter" >>
        toPublish == toFilter \o << "generate", "extract_image", "publish" >>
        post == generate_content(x.cleaned_text, x.gen)
        pub == x.published
        saved == save_article_to_db(t, entry.link, entry.title, x.cleaned_text,
                                    x.photo_url, pub.telegram_link, ts, x.fault)
    IN  IF entry.link = NULL
        THEN [effect |-> [table |-> t, channel |-> ch, aborted |-> TRUE],
              outcome |-> "raised", calls |-> << >>]
        ELSE IF already_exists(t, entry.link)
        THEN skip("already_exists", << "exists_by_link" >>)
        ELSE IF is_too_similar(x.similar)
        THEN skip("too_similar", << "exists_by_link", "similarity" >>)
        ELSE IF ~x.fetched
        THEN skip("exception", << "exists_by_link", "similarity", "fetch" >>)
        ELSE IF is_filtered_out(x.filter) THEN skip("filtered_out", toFilter)
        ELSE IF is_generation_failed(post)
        THEN skip("generation_failed", toFilter \o << "generate" >>)
        ELSE IF pub.telegram_link # NoLink
             THEN done(saved.table, pub.channel,
                       IF saved.outcome = "inserted" THEN "STORED"
                       ELSE "save_" \o saved.outcome,
                       toPublish \o << "save" >>)
             ELSE done(t, pub.channel, "publish_failed", toPublish)

\* variant: cleanup_old_articles is called at the end of process_rss_feed
AfterEntries_EachFeed(rest, left) ==
    IF rest # << >> THEN "entries" ELSE "cleanup"

\* where the intake loop goes once `rest` are the entries left of the feed
AfterEntries(rest, left) ==
    IF rest # << >> THEN "entries" ELSE IF left > 0 THEN "feed" ELSE "cleanup"

\* ------------------------------------------------------------ intake loop
\* main(): a new cycle starts after wait_until_next_hour
StartCycle ==
    /\ ipc = "wait"
    /\ feeds_left' = NumFeeds
    /\ ipc' = "feed"
    /\ UNCHANGED << env, articles, now, channel, wpPosts, entries, existing_titles,
                    enrichVars, callerVars >>

\* process_rss_feed up to the loop: the feed is parsed and the titles are
\* read; a sqlite3 error of the SELECT (always, when DB_FILE is "": every
\* connection opens an empty temporary database) is raised outside the try
\* of the loop body and reaches the handler of main()
PollFeed ==
    /\ ipc = "feed"
    /\ \E dbError \in (IF env.intake["DB_FILE_PATH"] = "" THEN {TRUE} ELSE BOOLEAN) :
         IF dbError
         THEN /\ ipc' = "except"
              /\ entries' = << >>
              /\ existing_titles' = << >>
              /\ feeds_left' = feeds_left
         ELSE /\ \E n \in 0..MaxEntries : \E feed \in [1..n -> FeedEntries] :
                   /\ entries' = feed
                   /\ ipc' = AfterEntries(feed, feeds_left - 1)
                   /\ \E titles \in recent_titles(articles) :
                         existing_titles' = IF feed # << >> THEN titles ELSE << >>
              /\ feeds_left' = feeds_left - 1
    /\ UNCHANGED << env, articles, now, channel, wpPosts, enrichVars, callerVars >>

\* the external answers one entry can meet; an answer that is not asked for
\* keeps its first value.  The channel takes MaxMessages messages.
EntryAnswers(t, ch, entry) ==
    LET known == LinkStored(t, entry.link)
    IN  UNION { UNION { UNION { UNION { UNION { UNION {
          { [similar |-> similar, fetched |-> fetched, cleaned_text |-> cleaned,
             filter |-> filter, gen |-> gen, photo_url |-> PageImage(entry.link),
             published |-> published, fault |-> fault] :
            fault \in (IF published.telegram_link # NoLink THEN BOOLEAN ELSE {FALSE}) } :
          published \in { publish_to_telegram(ch, entry.link, TRUE, fails) :
                            fails \in (IF gen = "post" /\ Len(ch) < MaxMessages
                                       THEN 0..PUBLISH_ATTEMPTS
                                       ELSE {PUBLISH_ATTEMPTS}) } } :
          gen \in (IF filter = "True" /\ cleaned # "" THEN {NULL, "", "post"} ELSE {NULL}) } :
          filter \in (IF fetched THEN Tri ELSE {NULL}) } :
          cleaned \in (IF fetched THEN {"", "text"} ELSE {""}) } :
          fetched \in (IF known \/ similar = "True" THEN {FALSE} ELSE BOOLEAN) } :
          similar \in (IF known THEN {NULL} ELSE Tri) }

\* variant: the titles are read again after every entry
titles_after_entry_Reload(titles, t) == CHOOSE s \in recent_titles(t) : TRUE

\* existing_titles in the next iteration: the list is assigned before the
\* loop and not in it
titles_after_entry(titles, t) == titles

\* one iteration of the loop over feed.entries; an exception that leaves the
\* loop body leaves process_rss_feed
ProcessEntry ==
    /\ ipc = "entries"
    /\ entries # << >>
    /\ \E r \in { process_entry(articles, channel, Head(entries), now, x).effect :
                     x \in EntryAnswers(articles, channel, Head(entries)) } :
         /\ articles' = r.table
         /\ channel' = r.channel
         /\ IF r.aborted
            THEN /\ ipc' = "except"
                 /\ entries' = << >>
                 /\ existing_titles' = << >>
            ELSE /\ ipc' = AfterEntries(Tail(entries), feeds_left)
                 /\ entries' = Tail(entries)
                 /\ existing_titles' = IF Tail(entries) # << >>
                                       THEN titles_after_entry(existing_titles, r.table)
                                       ELSE << >>
    /\ UNCHANGED << env, now, wpPosts, feeds_left, enrichVars, callerVars >>

\* cleanup_old_articles at the end of the cycle, before the wait; a sqlite3
\* error of the DELETE reaches the handler of main()
Cleanup ==
    /\ ipc = "cleanup"
    /\ \E dbError \in BOOLEAN :
         IF dbError
         THEN /\ articles' = articles
              /\ ipc' = "except"
         ELSE /\ articles' = cleanup_old_articles(articles, now)
              /\ ipc' = "wait"
    /\ UNCHANGED << env, now, channel, wpPosts, feeds_left, entries,
                    existing_titles, enrichVars, callerVars >>

\* `except Exception` of main(): the error is logged and `while True` goes
\* round: the feeds are polled again from the first one
HandleError ==
    /\ ipc = "except"
    /\ ipc' = "feed"
    /\ feeds_left' = NumFeeds
    /\ UNCHANGED << env, articles, now, channel, wpPosts, entries, existing_titles,
                    enrichVars, callerVars >>

\* a week passes
Tick ==
    /\ now < MaxNow
    /\ now' = now + 1
    /\ UNCHANGED << env, articles, channel, wpPosts, intakeVars, enrichVars, callerVars >>

\* ------------------------------------------- enrichment: external services
\* what the WordPress REST API or the network can answer to a POST
TermAnswers == {"created", "term_exists", "term_exists_noid", "http_error",
                "no_id", "bad_json", "conn_error"}
UploadAnswers == {"uploaded", "no_id", "http_error", "bad_json", "conn_error"}
CreateAnswers == {"created", "no_link", "error"}
MetaAnswers == {"updated", "http_error", "bad_json", "conn_error"}

\* create_wp_term: the term id, or None; when requests.post itself raises,
\* the handler reads the unassigned local `response` and an UnboundLocalError
\* leaves the function
create_wp_term(answer) ==
    CASE answer \in {"created", "term_exists"} -> [term_id |-> 1, raised |-> NULL]
      [] answer = "conn_error" -> [term_id |-> NoLink, raised |-> "UnboundLocalError"]
      [] OTHER -> [term_id |-> NoLink, raised |-> NULL]

\* upload_image_to_wp: the media id, or None; same handlers as create_wp_term
upload_image_to_wp(answer) ==
    CASE answer = "uploaded" -> [media_id |-> 1, raised |-> NULL]
      [] answer = "conn_error" -> [media_id |-> NoLink, raised |-> "UnboundLocalError"]
      [] OTHER -> [media_id |-> NoLink, raised |-> NULL]

\* variant: `response` is not set to None before the try, as in
\* create_wp_term and upload_image_to_wp
update_post_meta_Unbound(answer) ==
    CASE answer = "updated" -> [ok |-> TRUE, raised |-> NULL]
      [] answer = "conn_error" -> [ok |-> FALSE, raised |-> "UnboundLocalError"]
      [] OTHER -> [ok |-> FALSE, raised |-> NULL]

\* update_post_meta: True when the request went through, False after any
\* exception; `response = None` before the try makes the handlers' read of
\* `response` safe
update_post_meta(answer) ==
    CASE answer = "updated" -> [ok |-> TRUE, raised |-> NULL]
      [] OTHER -> [ok |-> FALSE, raised |-> NULL]

\* suggested names the generator can return and names of terms of the site
SuggestedNames == {"AI", "ai ", "ML", " "}
ExistingNames == {"Ai", "ml"}
\* existing_terms_map {id: name}: the snapshot of the site's terms
ExistingMaps == UNION { [S -> ExistingNames] : S \in SUBSET {1, 2} }

\* name.strip()
Strip(name) == CASE name = "ai " -> "ai" [] name = " " -> "" [] OTHER -> name
\* name.strip().lower()
StripLower(name) ==
    CASE Strip(name) \in {"AI", "Ai", "ai"} -> "ai"
      [] Strip(name) \in {"ML", "ml"} -> "ml"
      [] OTHER -> Strip(name)

\* {name.strip().lower(): id for id, name in existing_terms_map.items()}: of
\* two terms with one lower-cased name the dict keeps the one read last,
\* here the one with the larger id
name_to_id_map(existing_terms_map) ==
    [k \in { StripLower(existing_terms_map[id]) : id \in DOMAIN existing_terms_map } |->
        Max({ id \in DOMAIN existing_terms_map : StripLower(existing_terms_map[id]) = k })]

\* the id the site returns for a term the snapshot does not hold
NextTermId(existing_terms_map) == Max(DOMAIN existing_terms_map \cup {0}) + 1

\* variant: the created term is not added to the lookup map
remember_term_Nothing(map, lower_name, new_id) == map

\* name_to_id_map[lower_name] = new_id
remember_term(map, lower_name, new_id) ==
    [k \in DOMAIN map \cup {lower_name} |-> IF k = lower_name THEN new_id ELSE map[k]]

\* variant: the created term is not added to the snapshot
remember_in_snapshot_Nothing(existing_terms_map, new_id, clean_name) ==
    existing_terms_map

\* existing_terms_map[new_id] = clean_name: the dict is the caller's, which
\* main_loop fetched for the batch
remember_in_snapshot(existing_terms_map, new_id, clean_name) ==
    [id \in DOMAIN existing_terms_map \cup {new_id} |->
        IF id = new_id THEN clean_name ELSE existing_terms_map[id]]

\* the `for name in suggested_names` loop of get_or_create_term_ids from the
\* i-th name on; answers[i]: what the site answers if a term is requested
\* for the i-th name.  acc.requested: the create requests sent; acc.resolved:
\* the id found or returned for each name that was not skipped (NoLink when
\* the creation failed)
RECURSIVE term_ids_loop(_, _, _, _)
term_ids_loop(suggested_names, answers, i, acc) ==
    IF i > Len(suggested_names) THEN acc
    ELSE LET clean_name == Strip(suggested_names[i])
             lower_name == StripLower(suggested_names[i])
         IN  IF clean_name = ""
             THEN term_ids_loop(suggested_names, answers, i + 1, acc)
             ELSE IF lower_name \in DOMAIN acc.map
             THEN term_ids_loop(suggested_names, answers, i + 1,
                      [acc EXCEPT !.resolved =
                          Append(@, [name |-> lower_name, id |-> acc.map[lower_name]])])
             ELSE LET r == create_wp_term(answers[i])
                      new_id == IF r.term_id = NoLink THEN NoLink
                                ELSE NextTermId(acc.existing_terms_map)
                      asked == Append(acc.requested,
                                      [name |-> lower_name, answer |-> answers[i]])
                  IN  IF r.raised # NULL
                      THEN [acc EXCEPT !.requested = asked, !.raised = r.raised]
                      ELSE IF new_id # NoLink
                      THEN term_ids_loop(suggested_names, answers, i + 1,
                               [acc EXCEPT
                                  !.map = remember_term(@, lower_name, new_id),
                                  !.existing_terms_map =
                                      remember_in_snapshot(@, new_id, clean_name),
                                  !.resolved = Append(@, [name |-> lower_name, id |-> new_id]),
                                  !.requested = asked])
                      ELSE term_ids_loop(suggested_names, answers, i + 1,
                               [acc EXCEPT
                                  !.resolved = Append(@, [name |-> lower_name, id |-> NoLink]),
                                  !.requested = asked])

\* get_or_create_term_ids: final_ids, the updated existing_terms_map, and the
\* exception that left the function, if any
get_or_create_term_ids(suggested_names, existing_terms_map, answers) ==
    LET acc == term_ids_loop(suggested_names, answers, 1,
                   [map |-> name_to_id_map(existing_terms_map),
                    existing_terms_map |-> existing_terms_map,
                    resolved |-> << >>, requested |-> << >>, raised |-> NULL])
        found(e) == e.id # NoLink
        got == SelectSeq(acc.resolved, found)
    IN  [final_ids |-> [k \in 1..Len(got) |-> got[k].id],
         existing_terms_map |-> acc.existing_terms_map,
         resolved |-> acc.resolved, requested |-> acc.requested,
         raised |-> acc.raised]

\* what gemini_model.generate_content can answer: a JSON object with the six
\* required keys, a response without parts, text that is not JSON, a JSON
\* object with a required key missing, or an exception
GeminiAnswers == {"data", "empty", "bad_json", "missing_key", "exception"}

\* variant: the parsed object is returned without the check of its keys
has_required_keys_Unchecked(answer) == answer \in {"data", "missing_key"}

\* all(key in generated_data for key in required_keys)
has_required_keys(answer) == answer = "data"

\* generate_wp_content_and_suggestions: None without a call when cleaned_text
\* is None; else the parsed object when the response has parts, its text is
\* JSON and the object has the required keys ("partial": an object with a
\* key missing); None in every other case, the handlers of the try return
\* nothing
generate_wp_content_and_suggestions(cleaned_text, answer) ==
    IF cleaned_text = NULL THEN NULL
    ELSE IF answer \in {"empty", "bad_json", "exception"} THEN NULL
    ELSE IF ~has_required_keys(answer) THEN NULL
    ELSE IF answer = "data" THEN "data" ELSE "partial"


\* what the search API or the network can answer to the GET
SearchAnswers == {"found", "http_error", "conn_error"}

\* find_supplementary_articles: the urls found, [] after an HTTP error; when
\* requests.get itself raises, the handler reads the unassigned local
\* `response` and an UnboundLocalError leaves the function
find_supplementary_articles(answer) ==
    CASE answer = "found" -> [urls |-> << "url" >>, raised |-> NULL]
      [] answer = "conn_error" -> [urls |-> << >>, raised |-> "UnboundLocalError"]
      [] OTHER -> [urls |-> << >>, raised |-> NULL]

\* f'Article ID {article_id}'
FallbackTitle(article_id) == "Article ID"

\* article.get('title', f'Article ID {article_id}'): the row always has the
\* key 'title', so the stored value is returned, None included
article_title(article) == article.title

\* the condition of step 0: the search is called when it holds
search_called(article, search_key, cse_id) ==
    /\ article_title(article) # FallbackTitle(article.id)
    /\ search_key
    /\ cse_id

\* variant: no try around the call of find_supplementary_articles
supplementary_step_Uncaught(found) == found

\* try/except around the call in step 0: supplementary_urls stays [] when
\* the call raises
supplementary_step(found) ==
    IF found.raised # NULL THEN [urls |-> << >>, raised |-> NULL] ELSE found

\* variant: the status is written from the post id alone
terminal_status_Published(new_post_link) == "published"

\* step 6 of the loop body: if new_post_link: 'published' else: 'failed'
terminal_status(new_post_link) ==
    IF new_post_link # NoLink THEN "published" ELSE "failed"

\* the body of the `for article in pending_articles` loop of main_loop, for
\* the external answers x (x.term, x.upload: what create_wp_term and
\* upload_image_to_wp do when they are called).  aborted: an exception left the loop body and
\* reached the handler around the batch; failure: the step that ended the
\* record without a published post; written: the status update_article_status
\* wrote; network: the services the iteration turned to before the status
\* update, in order (wp_terms: the taxonomy step, which contacts the site for
\* a suggested name that is new)
process_record(t, posts, article, x) ==
    LET called == search_called(article, x.search_key, x.cse_id)
        search == IF called
                  THEN supplementary_step(find_supplementary_articles(x.search))
                  ELSE [urls |-> << >>, raised |-> NULL]
        supplementary_urls == search.urls
        searched == IF called THEN << "search" >> ELSE << >>
        downloaded == article.image_url # NULL /\ x.download
        media == IF downloaded THEN x.upload
                 ELSE [media_id |-> NoLink, raised |-> NULL]
        featured_media_id == media.media_id
        res(table, posts1, failure, written, aborted, network) ==
            [effect |-> [table |-> table, posts |-> posts1, aborted |-> aborted],
             failure |-> failure, written |-> written, network |-> network,
             supplementary_urls |-> supplementary_urls,
             featured_media_id |-> featured_media_id]
        generated_data == generate_wp_content_and_suggestions(article.cleaned_text, x.gen)
        toGenerate == searched \o (IF article.cleaned_text # NULL
                                   THEN << "generator" >> ELSE << >>)
        term == x.term
        toTerms == toGenerate \o << "wp_terms" >>
        toUpload == toTerms \o (IF article.image_url # NULL
                                THEN << "image_host" >> ELSE << >>)
                            \o (IF downloaded THEN << "wp_media" >> ELSE << >>)
        created == x.create \in {"created", "no_link"}
        posts2 == IF created
                  THEN Append(posts, [link |-> article.link, datetime |-> article.datetime])
                  ELSE posts
        new_post_id == IF created THEN Len(posts2) ELSE NoLink
        new_post_link == IF x.create = "created" THEN Len(posts2) ELSE NoLink
        meta == IF new_post_id # NoLink THEN x.meta
                ELSE [ok |-> FALSE, raised |-> NULL]
        meta_updated_successfully == meta.ok
        toCreate == toUpload \o << "wp_posts" >>
        toMeta == toCreate \o (IF new_post_id # NoLink THEN << "wp_meta" >> ELSE << >>)
        failedUpd == update_article_status(t, article.id, "failed", NoLink, x.dbError)
        status == terminal_status(new_post_link)
        lastUpd == IF status = "published"
                   THEN update_article_status(t, article.id, "published",
                                              new_post_link, x.dbError)
                   ELSE failedUpd
    IN  IF search.raised # NULL
        THEN res(t, posts, "search", NULL, TRUE, searched)
        ELSE IF generated_data = NULL
        THEN res(failedUpd.table, posts, "generation",
                 IF failedUpd.ok THEN "failed" ELSE NULL, FALSE, toGenerate)
        ELSE IF term.raised # NULL
        THEN res(t, posts, "taxonomy", NULL, TRUE, toTerms)
        ELSE IF media.raised # NULL
        THEN res(t, posts, "image_upload", NULL, TRUE, toUpload)
        ELSE IF meta.raised # NULL
        THEN res(t, posts2, "meta", NULL, TRUE, toMeta)
        ELSE res(lastUpd.table, posts2,
                 IF new_post_link # NoLink THEN "none" ELSE "post",
                 IF lastUpd.ok THEN status ELSE NULL, FALSE, toMeta)

\* -------------------------------------------------------- enrichment loop
\* what the site can answer to a GET of a page of categories or tags
PageAnswers == {"items", "http_error", "bad_json"}

\* fetch_all_paginated_items: the {id: name} dictionary, None when a request
\* fails or its body is not JSON
fetch_all_paginated_items(answer) ==
    IF answer = "items" THEN "map" ELSE NULL

\* fetch_wordpress_taxonomies: (categories, tags); the tags are not asked for
\* when the categories could not be fetched.  requests: the endpoints asked
fetch_wordpress_taxonomies(categories_answer, tags_answer) ==
    LET categories == fetch_all_paginated_items(categories_answer)
        tags == fetch_all_paginated_items(tags_answer)
    IN  IF categories = NULL
        THEN [categories_map |-> NULL, tags_map |-> NULL,
              requests |-> {"wp_categories"}]
        ELSE [categories_map |-> categories, tags_map |-> tags,
              requests |-> {"wp_categories", "wp_tags"}]

\* variant: if categories_map is None
taxonomies_fetched_CategoriesOnly(taxonomies) ==
    taxonomies.categories_map # NULL

\* the else of `if categories_map is None or tags_map is None`
taxonomies_fetched(taxonomies) ==
    taxonomies.categories_map # NULL /\ taxonomies.tags_map # NULL

\* the rows main_loop goes on to process: the fetched rows, unless
\* fetch_wordpress_taxonomies returned None for the categories or the tags
start_batch(fetched, taxOk) ==
    IF fetched # << >> /\ taxOk THEN fetched ELSE << >>

\* one pass of `while True` up to the loop over the batch: connect, fetch the
\* pending rows, fetch the taxonomies
StartBatch ==
    /\ wpc = "sleep"
    /\ \E batch \in { start_batch(b, taxOk) :
                         b \in UNION { fetch_pending_articles(articles, ARTICLES_PER_RUN, e) :
                                         e \in BOOLEAN },
                         taxOk \in { taxonomies_fetched(fetch_wordpress_taxonomies(c, t)) :
                                       c \in PageAnswers, t \in PageAnswers } } :
         /\ pending_articles' = batch
         /\ wpc' = IF batch # << >> THEN "batch" ELSE "sleep"
    /\ UNCHANGED << env, articles, now, channel, wpPosts, intakeVars, callerVars >>

\* the generator gives the loop body nothing to go on with
NoData(article, gen) ==
    generate_wp_content_and_suggestions(article.cleaned_text, gen) = NULL

\* the external answers one record can meet; an answer that is not asked for
\* keeps its first value.  The site takes MaxPosts posts.
RecordAnswers(posts, article) ==
    UNION { UNION { UNION { UNION { UNION {
      { [search_key |-> ~Unset(env.enrich["GOOGLE_SEARCH_API_KEY"]),
         cse_id |-> ~Unset(env.enrich["GOOGLE_CSE_ID"]),
         search |-> search, gen |-> gen, term |-> term, download |-> download,
         upload |-> upload, create |-> create, meta |-> meta, dbError |-> dbError] :
        search \in SearchAnswers,
        meta \in (IF create \in {"created", "no_link"}
                  THEN { update_post_meta(a) : a \in MetaAnswers }
                  ELSE { update_post_meta("updated") }),
        dbError \in (IF term.raised # NULL \/ upload.raised # NULL
                     THEN {FALSE} ELSE BOOLEAN) } :
      create \in (IF NoData(article, gen) \/ term.raised # NULL \/ upload.raised # NULL
                     \/ Len(posts) >= MaxPosts
                  THEN {"error"} ELSE CreateAnswers) } :
      upload \in (IF download THEN { upload_image_to_wp(a) : a \in UploadAnswers }
                  ELSE { upload_image_to_wp("uploaded") }) } :
      download \in (IF NoData(article, gen) \/ article.image_url = NULL \/ term.raised # NULL
                    THEN {FALSE} ELSE BOOLEAN) } :
      term \in (IF NoData(article, gen) THEN { create_wp_term("created") }
                ELSE { create_wp_term(a) : a \in TermAnswers }) } :
      gen \in (IF article.cleaned_text = NULL THEN {"empty"} ELSE GeminiAnswers) }

\* one iteration of the loop over pending_articles
ProcessRecord ==
    /\ wpc = "batch"
    /\ pending_articles # << >>
    /\ \E r \in { process_record(articles, wpPosts, Head(pending_articles), x).effect :
                     x \in RecordAnswers(wpPosts, Head(pending_articles)) } :
         /\ articles' = r.table
         /\ wpPosts' = r.posts
         /\ IF r.aborted \/ Tail(pending_articles) = << >>
            THEN /\ wpc' = "sleep"
                 /\ pending_articles' = << >>
            ELSE /\ wpc' = "batch"
                 /\ pending_articles' = Tail(pending_articles)
    /\ UNCHANGED << env, now, channel, intakeVars, callerVars >>

\* ------------------------------------------------------ the two pipelines
NoCall == [op |-> "none"]

Init ==
    /\ articles = << >>
    /\ now = 0
    /\ channel = << >>
    /\ wpPosts = << >>
    /\ ipc = "wait"
    /\ feeds_left = 0
    /\ entries = << >>
    /\ existing_titles = << >>
    /\ wpc = "sleep"
    /\ pending_articles = << >>
    /\ lastCall = NoCall
    /\ racers = << >>
    /\ raceEntry = NULL
    /\ dbLock = 0
    /\ env = GoodEnv

Next ==
    \/ StartCycle
    \/ PollFeed
    \/ ProcessEntry
    \/ Cleanup
    \/ HandleError
    \/ StartBatch
    \/ ProcessRecord
    \/ Tick

Spec == Init /\ [][Next]_vars

\* ------------------------------- the two pipelines, both loops kept running
\* the poll of a feed when the store answers the SELECT
LivePollFeed == PollFeed /\ ipc' # "except"

\* the sweep when the store takes the DELETE
LiveCleanup == Cleanup /\ ipc' = "wait"

\* the next step of the intake loop: it is one thread, so at most one of
\* these is enabled at a time
LiveIntake ==
    \/ StartCycle
    \/ LivePollFeed
    \/ ProcessEntry
    \/ LiveCleanup
    \/ HandleError

\* the next step of the enrichment loop
LiveEnrich ==
    \/ StartBatch
    \/ ProcessRecord

NextLive ==
    \/ LiveIntake
    \/ LiveEnrich
    \/ Tick

\* each loop takes its next step whenever it has one, and time passes; what
\* the feeds, the services and the site answer is not constrained
Fairness ==
    /\ WF_vars(LiveIntake)
    /\ WF_vars(LiveEnrich)
    /\ WF_vars(Tick)

SpecLive == Init /\ [][NextLive]_vars /\ Fairness

\* ------------------------------------- the two scripts from their start
\* each script started in any environment of Envs
InitStartup ==
    /\ articles = << >>
    /\ now = 0
    /\ channel = << >>
    /\ wpPosts = << >>
    /\ ipc = "start"
    /\ feeds_left = 0
    /\ entries = << >>
    /\ existing_titles = << >>
    /\ wpc = "start"
    /\ pending_articles = << >>
    /\ lastCall = NoCall
    /\ racers = << >>
    /\ raceEntry = NULL
    /\ dbLock = 0
    /\ env \in Envs

\* telegram_poster.py up to the first wait_until_next_hour of main()
IntakeStartup ==
    /\ ipc = "start"
    /\ ipc' = telegram_poster_startup(env.intake)
    /\ UNCHANGED << env, articles, now, channel, wpPosts, feeds_left, entries,
                    existing_titles, enrichVars, callerVars >>

\* wordpress_poster.py up to `while True` of main_loop
EnrichStartup ==
    /\ wpc = "start"
    /\ wpc' = wordpress_poster_startup(env.enrich, env.gemini_init)
    /\ UNCHANGED << env, articles, now, channel, wpPosts, intakeVars,
                    pending_articles, callerVars >>

NextStartup ==
    \/ IntakeStartup
    \/ EnrichStartup
    \/ StartCycle
    \/ PollFeed
    \/ ProcessEntry
    \/ Cleanup
    \/ HandleError
    \/ StartBatch
    \/ ProcessRecord
    \/ Tick

SpecStartup == InitStartup /\ [][NextStartup]_vars

\* ------------------------------ the store operations, called directly:
\* any arguments, in any order
pipelineVars == << channel, wpPosts, intakeVars, enrichVars >>
\* the telegram_link and wordpress_link values a caller passes
CallerLinks == {1, 2}

CallSave ==
    /\ \E e \in Entries, tg \in CallerLinks, fault \in BOOLEAN :
         LET r == save_article_to_db(articles, e.link, e.title, "text",
                                     PageImage(e.link), tg, now, fault)
         IN  /\ articles' = r.table
             /\ lastCall' = [op |-> "save", link |-> e.link, outcome |-> r.outcome,
                             raised |-> r.raised]
    /\ UNCHANGED << env, now, pipelineVars, racers, raceEntry, dbLock >>

CallCleanup ==
    /\ articles' = cleanup_old_articles(articles, now)
    /\ lastCall' = [op |-> "cleanup", at |-> now,
                    purged |-> { articles[id].status_wp :
                                   id \in DOMAIN articles \ DOMAIN articles' }]
    /\ UNCHANGED << env, now, pipelineVars, racers, raceEntry, dbLock >>

CallUpdate ==
    /\ \E id \in DOMAIN articles \cup {NextRowId(articles)},
          status \in Statuses \cup {"draft"}, dbError \in BOOLEAN :
       \E link \in (IF status = "published" THEN CallerLinks
                     ELSE IF status = "failed" THEN {NoLink, 1} ELSE {NoLink}) :
         LET r == update_article_status(articles, id, status, link, dbError)
         IN  /\ articles' = r.table
             /\ lastCall' = [op |-> "update", id |-> id, status |-> status,
                             ok |-> r.ok]
    /\ UNCHANGED << env, now, pipelineVars, racers, raceEntry, dbLock >>

CallFetch ==
    /\ \E limit \in 0..MaxLimit, dbError \in BOOLEAN :
       \E rows \in fetch_pending_articles(articles, limit, dbError) :
         lastCall' = [op |-> "fetch", limit |-> limit, result |-> rows]
    /\ UNCHANGED << env, articles, now, pipelineVars, racers, raceEntry, dbLock >>

\* a week passes between two calls
Wait ==
    /\ now < MaxNow
    /\ now' = now + 1
    /\ lastCall' = [op |-> "wait"]
    /\ UNCHANGED << env, articles, pipelineVars, racers, raceEntry, dbLock >>

NextStore ==
    \/ CallSave
    \/ CallCleanup
    \/ CallUpdate
    \/ CallFetch
    \/ Wait

SpecStore == Init /\ [][NextStore]_vars

\* ----------------------------- concurrent callers of save_article_to_db
\* NumCallers connections save the same entry into a store that does not hold
\* its link.  SQLite gives the write lock to one connection from its INSERT
\* to its commit; another connection's INSERT waits for the lock (timeout=10)
\* and fails with "database is locked" when the wait runs out.
Callers == 1..NumCallers

InitRace ==
    /\ articles = << >>
    /\ now = 0
    /\ channel = << >>
    /\ wpPosts = << >>
    /\ ipc = "wait"
    /\ feeds_left = 0
    /\ entries = << >>
    /\ existing_titles = << >>
    /\ wpc = "sleep"
    /\ pending_articles = << >>
    /\ lastCall = NoCall
    /\ racers = [c \in Callers |-> "ready"]
    /\ raceEntry \in Entries
    /\ dbLock = 0
    /\ env = GoodEnv

\* cursor.execute(sql_query, params) of caller c, the lock being free
RaceExecute(c) ==
    /\ racers[c] = "ready"
    /\ dbLock = 0
    /\ \E fault \in BOOLEAN :
         LET r == save_article_to_db(articles, raceEntry.link, raceEntry.title, "text",
                                     PageImage(raceEntry.link), c, now, fault)
         IN  /\ articles' = r.table
             /\ IF r.outcome = "inserted"
                THEN /\ racers' = [racers EXCEPT ![c] = "commit"]
                     /\ dbLock' = c
                ELSE /\ racers' = [racers EXCEPT ![c] = r.outcome]
                     /\ dbLock' = dbLock
    /\ UNCHANGED << env, now, pipelineVars, lastCall, raceEntry >>

\* cursor.execute of caller c while another connection holds the lock for
\* longer than the timeout: sqlite3.OperationalError
RaceTimeout(c) ==
    /\ racers[c] = "ready"
    /\ dbLock # 0
    /\ LET r == save_article_to_db(articles, raceEntry.link, raceEntry.title, "text",
                                   PageImage(raceEntry.link), c, now, TRUE)
       IN  /\ articles' = r.table
           /\ racers' = [racers EXCEPT ![c] = r.outcome]
    /\ UNCHANGED << env, now, pipelineVars, lastCall, raceEntry, dbLock >>

\* conn.commit() of the caller that inserted
RaceCommit(c) ==
    /\ racers[c] = "commit"
    /\ dbLock = c
    /\ racers' = [racers EXCEPT ![c] = "inserted"]
    /\ dbLock' = 0
    /\ UNCHANGED << env, articles, now, pipelineVars, lastCall, raceEntry >>

NextRace ==
    \/ \E c \in Callers : RaceExecute(c)
    \/ \E c \in Callers : RaceTimeout(c)
    \/ \E c \in Callers : RaceCommit(c)

SpecRace == InitRace /\ [][NextRace]_vars

\* ------------------------------ one feed entry, whatever the services answer
\* one iteration of the loop over feed.entries for any entry and any answers
\* of the judge, the page fetch, the filter, the generator, the publisher and
\* the store; lastCall keeps the answers and what the iteration did
EntryStep ==
    /\ lastCall.op # "entry"
    /\ \E entry \in FeedEntries, fetched \in BOOLEAN, cleaned \in {"", "text"},
          gen \in {NULL, "", "post"}, fault \in BOOLEAN :
       \E similar \in { is_title_similar_with_chatgpt(reply) : reply \in ModelReplies },
          filter \in { filter_article(client, reply) :
                         client \in BOOLEAN, reply \in ModelReplies },
          published \in { publish_to_telegram(channel, entry.link, botOk, fails) :
                            botOk \in BOOLEAN,
                            fails \in (IF Len(channel) < MaxMessages
                                       THEN 0..PUBLISH_ATTEMPTS
                                       ELSE {PUBLISH_ATTEMPTS}) } :
         LET x == [similar |-> similar, fetched |-> fetched, cleaned_text |-> cleaned,
                   filter |-> filter, gen |-> gen, photo_url |-> PageImage(entry.link),
                   published |-> published, fault |-> fault]
             r == process_entry(articles, channel, entry, now, x)
         IN  /\ articles' = r.effect.table
             /\ channel' = r.effect.channel
             /\ lastCall' = [op |-> "entry", entry |-> entry, x |-> x,
                             outcome |-> r.outcome, calls |-> r.calls]
    /\ UNCHANGED << env, now, wpPosts, intakeVars, enrichVars, racers, raceEntry, dbLock >>

\* the loop moves on to the next entry
EntryNext ==
    /\ lastCall.op = "entry"
    /\ lastCall' = NoCall
    /\ UNCHANGED << env, articles, now, channel, wpPosts, intakeVars, enrichVars,
                    racers, raceEntry, dbLock >>

NextEntry ==
    \/ EntryStep
    \/ EntryNext

SpecEntry == Init /\ [][NextEntry]_vars

\* --------------------------- one pending record, whatever the services answer
\* a record reaches the store: cleaned_text is NULL for a row written before
\* the column was added, else the text intake stored
EnrichSeed ==
    /\ lastCall.op # "record"
    /\ \E e \in Entries, cleaned \in {NULL, "text"} :
       \E title \in {e.title, NULL} :
         LET r == save_article_to_db(articles, e.link, title, cleaned,
                                     PageImage(e.link), 1, now, FALSE)
         IN  /\ r.outcome = "inserted"
             /\ articles' = r.table
    /\ UNCHANGED << env, now, pipelineVars, callerVars >>

\* one iteration of the loop over pending_articles for the oldest pending
\* record and any answers of the search, the generator, the site and the
\* store; lastCall keeps the answers and what the iteration did
RecordStep ==
    /\ lastCall.op # "record"
    /\ \E rows \in fetch_pending_articles(articles, 1, FALSE) :
         /\ rows # << >>
         /\ \E search_key \in BOOLEAN, cse_id \in BOOLEAN, dbError \in BOOLEAN,
               gen \in (IF rows[1].cleaned_text = NULL THEN {"empty"} ELSE GeminiAnswers) :
            \E search \in (IF search_called(rows[1], search_key, cse_id)
                            THEN SearchAnswers ELSE {"found"}),
               download \in (IF NoData(rows[1], gen) THEN {FALSE} ELSE BOOLEAN),
               term \in (IF NoData(rows[1], gen) THEN { create_wp_term("created") }
                         ELSE { create_wp_term(a) : a \in TermAnswers }),
               upload \in (IF NoData(rows[1], gen) THEN { upload_image_to_wp("uploaded") }
                           ELSE { upload_image_to_wp(a) : a \in UploadAnswers }),
               create \in (IF NoData(rows[1], gen) \/ Len(wpPosts) >= MaxPosts
                           THEN {"error"} ELSE CreateAnswers) :
            \E meta \in (IF create \in {"created", "no_link"}
                          THEN { update_post_meta(a) : a \in MetaAnswers }
                          ELSE { update_post_meta("updated") }) :
              LET x == [search_key |-> search_key, cse_id |-> cse_id,
                        search |-> search, gen |-> gen, term |-> term,
                        download |-> download, upload |-> upload,
                        create |-> create, meta |-> meta, dbError |-> dbError]
                  r == process_record(articles, wpPosts, rows[1], x)
              IN  /\ articles' = r.effect.table
                  /\ wpPosts' = r.effect.posts
                  /\ lastCall' = [op |-> "record", article |-> rows[1], x |-> x,
                                  failure |-> r.failure, written |-> r.written,
                                  aborted |-> r.effect.aborted,
                                  network |-> r.network,
                                  supplementary_urls |-> r.supplementary_urls,
                                  featured_media_id |-> r.featured_media_id]
    /\ UNCHANGED << env, now, channel, intakeVars, enrichVars, racers, raceEntry, dbLock >>

\* the loop moves on
RecordNext ==
    /\ lastCall.op = "record"
    /\ lastCall' = NoCall
    /\ UNCHANGED << env, articles, now, pipelineVars, racers, raceEntry, dbLock >>

NextEnrich ==
    \/ EnrichSeed
    \/ RecordStep
    \/ RecordNext

SpecEnrich == Init /\ [][NextEnrich]_vars

\* ------------------------- one pass of main_loop, whatever the site answers
\* no taxonomy request is made for an empty fetch
NoTaxonomies == [categories_map |-> NULL, tags_map |-> NULL, requests |-> {}]

\* the services a sequence of calls turned to
Services(calls) == { calls[i] : i \in 1..Len(calls) }

\* one pass of `while True` up to the loop over the batch, for any store and
\* any answers of the store and the site; lastCall keeps what was fetched,
\* the rows left to process, the services called in this pass, and what the
\* pass before this one fetched
CycleStart ==
    /\ lastCall = NoCall \/ (lastCall.op = "cycle" /\ lastCall.left = << >>)
    /\ \E dbError \in BOOLEAN :
       \E fetched \in fetch_pending_articles(articles, ARTICLES_PER_RUN, dbError) :
       \E taxonomies \in (IF fetched = << >> THEN {NoTaxonomies}
                           ELSE { fetch_wordpress_taxonomies(c, t) :
                                    c \in PageAnswers, t \in PageAnswers }) :
         lastCall' = [op |-> "cycle", dbError |-> dbError, fetched |-> fetched,
                      taxonomies |-> taxonomies,
                      left |-> start_batch(fetched, taxonomies_fetched(taxonomies)),
                      called |-> taxonomies.requests,
                      before |-> IF lastCall = NoCall THEN NoCall
                                 ELSE [op |-> "cycle", fetched |-> lastCall.fetched,
                                       taxonomies |-> lastCall.taxonomies]]
    /\ UNCHANGED << env, articles, now, pipelineVars, racers, raceEntry, dbLock >>

\* one iteration of the loop over the batch
CycleRecord ==
    /\ lastCall.op = "cycle"
    /\ lastCall.left # << >>
    /\ \E r \in { [effect |-> process_record(articles, wpPosts, Head(lastCall.left), x).effect,
                      services |-> Services(process_record(articles, wpPosts,
                                                           Head(lastCall.left), x).network)] :
                     x \in RecordAnswers(wpPosts, Head(lastCall.left)) } :
         /\ articles' = r.effect.table
         /\ wpPosts' = r.effect.posts
         /\ lastCall' = [lastCall EXCEPT
                !.left = IF r.effect.aborted THEN << >> ELSE Tail(@),
                !.called = @ \cup r.services]
    /\ UNCHANGED << env, now, channel, intakeVars, enrichVars, racers, raceEntry, dbLock >>

NextBatch ==
    \/ EnrichSeed
    \/ CycleStart
    \/ CycleRecord

SpecBatch == Init /\ [][NextBatch]_vars

\* ------------------------------------- taxonomy resolution, for any input
\* get_or_create_term_ids called once with any list of suggested names, any
\* snapshot of the site's terms and any answers of the site
TermsCall ==
    /\ lastCall = NoCall
    /\ \E n \in 0..MaxNames : \E names \in [1..n -> SuggestedNames],
             answers \in [1..n -> {"created", "term_exists", "http_error", "conn_error"}] :
       \E existing \in ExistingMaps :
         lastCall' = [op |-> "terms", suggested_names |-> names,
                      existing_terms_map |-> existing,
                      result |-> get_or_create_term_ids(names, existing, answers)]
    /\ UNCHANGED << env, articles, now, pipelineVars, racers, raceEntry, dbLock >>

\* the terms a call created: the names it requested and got an id for
created_terms(result) ==
    { [name |-> e.name, id |-> e.id] :
        e \in { result.resolved[k] :
                  k \in { j \in 1..Len(result.resolved) :
                            /\ result.resolved[j].id # NoLink
                            /\ \E i \in 1..Len(result.requested) :
                                  /\ result.requested[i].name = result.resolved[j].name
                                  /\ result.requested[i].answer \in
                                        {"created", "term_exists"} } } }

NextTerms == TermsCall

SpecTerms == Init /\ [][NextTerms]_vars

\* ------------------------------- taxonomy resolution across a batch
\* get_or_create_term_ids called for one record of a batch with any list of
\* suggested names, any snapshot and any answers of the site; lastCall keeps
\* the terms the call created and the snapshot as the call left it
TermsFirstRecord ==
    /\ lastCall = NoCall
    /\ \E n \in 0..MaxNames : \E names \in [1..n -> SuggestedNames],
             answers \in [1..n -> {"created", "term_exists", "http_error", "conn_error"}] :
       \E existing \in ExistingMaps :
         LET result == get_or_create_term_ids(names, existing, answers)
         IN  lastCall' = [op |-> "terms_first",
                          created |-> created_terms(result),
                          existing_terms_map |-> result.existing_terms_map,
                          raised |-> result.raised]
    /\ UNCHANGED << env, articles, now, pipelineVars, racers, raceEntry, dbLock >>

\* get_or_create_term_ids called for the next record of the batch: main_loop
\* passes the same dict, as the call for the record before left it; there is
\* no next record when the call before raised
TermsNextRecord ==
    /\ lastCall.op = "terms_first"
    /\ lastCall.raised = NULL
    /\ \E n \in 0..MaxNames : \E names \in [1..n -> SuggestedNames],
             answers \in [1..n -> {"created", "term_exists", "http_error", "conn_error"}] :
         lastCall' = [op |-> "terms_next",
                      created |-> lastCall.created,
                      suggested_names |-> names,
                      existing_terms_map |-> lastCall.existing_terms_map,
                      result |-> get_or_create_term_ids(
                                     names, lastCall.existing_terms_map, answers)]
    /\ UNCHANGED << env, articles, now, pipelineVars, racers, raceEntry, dbLock >>

NextTermsBatch ==
    \/ TermsFirstRecord
    \/ TermsNextRecord

SpecTermsBatch == Init /\ [][NextTermsBatch]_vars

\* --------------------------------------------- schema set-up and migration
\* the columns of the table before the enrichment columns were introduced
BaseColumns == {"id", "link", "title", "keywords", "telegram_link", "datetime"}
\* columns_to_add of ensure_database_exists
columns_to_add == {"cleaned_text", "image_url", "status_wp", "wordpress_link"}
\* a column some other tool added to the table
OtherColumns == {"note"}
\* the value ALTER TABLE ... ADD COLUMN gives the rows that exist
ColumnDefault(c) == IF c = "status_wp" THEN "pending" ELSE NULL
\* what a row written before the script starts holds in column c
RowValue(id, c) ==
    IF c = "id" THEN id ELSE IF c = "status_wp" THEN "published" ELSE "v"

NoTable == [exists |-> FALSE, columns |-> {}, rows |-> << >>]
\* the database files the script can be started on: no articles table, or a
\* table with the base columns, any of the later columns, and up to two rows
Databases ==
    {NoTable} \cup
    { [exists |-> TRUE, columns |-> BaseColumns \cup cs,
       rows |-> [id \in ids |-> [c \in BaseColumns \cup cs |-> RowValue(id, c)]]] :
         cs \in SUBSET (columns_to_add \cup OtherColumns), ids \in SUBSET {1, 2} }

\* variant: the table is dropped and created again
setup_database_Recreate(db) ==
    [exists |-> TRUE, columns |-> BaseColumns \cup columns_to_add, rows |-> << >>]

\* setup_database: CREATE TABLE IF NOT EXISTS articles (...)
setup_database(db) ==
    IF db.exists THEN db
    ELSE [exists |-> TRUE, columns |-> BaseColumns \cup columns_to_add, rows |-> << >>]

\* ensure_database_exists: setup_database, then ALTER TABLE ADD COLUMN for
\* each column of columns_to_add that PRAGMA table_info does not list;
\* failed: the columns whose ALTER raises sqlite3.OperationalError (caught)
ensure_database_exists(db, failed) ==
    LET table == setup_database(db)
        current_columns == table.columns
        added == { c \in columns_to_add : c \notin current_columns /\ c \notin failed }
    IN  [exists |-> TRUE,
         columns |-> current_columns \cup added,
         rows |-> [id \in DOMAIN table.rows |->
                     [c \in current_columns \cup added |->
                        IF c \in current_columns THEN table.rows[id][c]
                        ELSE ColumnDefault(c)]]]

\* the script is started on any database file
InitSchema ==
    /\ articles = << >>
    /\ now = 0
    /\ channel = << >>
    /\ wpPosts = << >>
    /\ ipc = "start"
    /\ feeds_left = 0
    /\ entries = << >>
    /\ existing_titles = << >>
    /\ wpc = "start"
    /\ pending_articles = << >>
    /\ lastCall \in { [op |-> "db", db |-> d] : d \in Databases }
    /\ racers = << >>
    /\ raceEntry = NULL
    /\ dbLock = 0
    /\ env = GoodEnv

\* ensure_database_exists runs on the file; any of the ALTERs it issues can
\* fail
EnsureCall ==
    /\ lastCall.op = "db"
    /\ \E failed \in SUBSET columns_to_add :
         lastCall' = [op |-> "ensure", before |-> lastCall.db, failed |-> failed,
                      db |-> ensure_database_exists(lastCall.db, failed)]
    /\ UNCHANGED << env, articles, now, pipelineVars, racers, raceEntry, dbLock >>

\* the script is started again on the file as the run before left it
EnsureRestart ==
    /\ lastCall.op = "ensure"
    /\ lastCall' = [op |-> "db", db |-> lastCall.db]
    /\ UNCHANGED << env, articles, now, pipelineVars, racers, raceEntry, dbLock >>

NextSchema ==
    \/ EnsureCall
    \/ EnsureRestart

SpecSchema == InitSchema /\ [][NextSchema]_vars

\* ------------------------------------------------------------ clean_html
\* future.result(timeout=5): seconds
CLEAN_TIMEOUT == 5

\* parse_html: the text, or "" when BeautifulSoup raises
parse_html(raises) == IF raises THEN "" ELSE "text"

\* clean_html is called with a page whose parsing takes parse_time seconds
\* and ends with the text or with an exception; the executor starts the
\* worker thread and the caller waits in future.result
CleanCall ==
    /\ lastCall = NoCall
    /\ \E parse_time \in 0..MaxParse, raises \in BOOLEAN :
         lastCall' = [op |-> "clean", parse_time |-> parse_time, raises |-> raises,
                      elapsed |-> 0, worker |-> "running", parsed |-> NULL,
                      caller |-> "result", value |-> NULL]
    /\ UNCHANGED << env, articles, now, pipelineVars, racers, raceEntry, dbLock >>

\* the worker thread ends parse_html
ParseDone ==
    /\ lastCall.op = "clean"
    /\ lastCall.worker = "running"
    /\ lastCall.elapsed = lastCall.parse_time
    /\ lastCall' = [lastCall EXCEPT !.worker = "done",
                                    !.parsed = parse_html(lastCall.raises)]
    /\ UNCHANGED << env, articles, now, pipelineVars, racers, raceEntry, dbLock >>

\* future.result returns what parse_html returned: `return future.result(...)`
\* leaves the with block
FutureResult ==
    /\ lastCall.op = "clean"
    /\ lastCall.caller = "result"
    /\ lastCall.worker = "done"
    /\ lastCall' = [lastCall EXCEPT !.caller = "exit", !.value = lastCall.parsed]
    /\ UNCHANGED << env, articles, now, pipelineVars, racers, raceEntry, dbLock >>

\* future.result raises TimeoutError after 5 seconds: `return ""` leaves the
\* with block
FutureTimeout ==
    /\ lastCall.op = "clean"
    /\ lastCall.caller = "result"
    /\ lastCall.worker = "running"
    /\ lastCall.elapsed = CLEAN_TIMEOUT
    /\ lastCall' = [lastCall EXCEPT !.caller = "exit", !.value = ""]
    /\ UNCHANGED << env, articles, now, pipelineVars, racers, raceEntry, dbLock >>

\* __exit__ of `with ThreadPoolExecutor() as executor`: shutdown(wait=True)
\* returns when the worker thread has ended; then clean_html returns
ExecutorExit ==
    /\ lastCall.op = "clean"
    /\ lastCall.caller = "exit"
    /\ lastCall.worker = "done"
    /\ lastCall' = [lastCall EXCEPT !.caller = "returned"]
    /\ UNCHANGED << env, articles, now, pipelineVars, racers, raceEntry, dbLock >>

\* a second passes while clean_html has not returned and neither thread has
\* a step to take at this second
CleanTick ==
    /\ lastCall.op = "clean"
    /\ lastCall.caller # "returned"
    /\ lastCall.elapsed < MaxParse
    /\ ~(lastCall.worker = "running" /\ lastCall.elapsed = lastCall.parse_time)
    /\ ~(lastCall.caller = "result" /\ lastCall.worker = "done")
    /\ ~(lastCall.caller = "result" /\ lastCall.elapsed = CLEAN_TIMEOUT)
    /\ ~(lastCall.caller = "exit" /\ lastCall.worker = "done")
    /\ lastCall' = [lastCall EXCEPT !.elapsed = @ + 1]
    /\ UNCHANGED << env, articles, now, pipelineVars, racers, raceEntry, dbLock >>

\* the caller goes on with the value
CleanNext ==
    /\ lastCall.op = "clean"
    /\ lastCall.caller = "returned"
    /\ lastCall' = NoCall
    /\ UNCHANGED << env, articles, now, pipelineVars, racers, raceEntry, dbLock >>

NextCleaner ==
    \/ CleanCall
    \/ ParseDone
    \/ FutureResult
    \/ FutureTimeout
    \/ ExecutorExit
    \/ CleanTick
    \/ CleanNext

SpecCleaner == Init /\ [][NextCleaner]_vars

\* ================================================================ properties
Done == {"inserted", "duplicate", "error"}
RowMatches(t, a) ==
    /\ a.id \in DOMAIN t
    /\ t[a.id].link = a.link
    /\ t[a.id].datetime = a.datetime

\* C1 (SpecStore): after any sequence of save_article_to_db, purge and status
\* update calls the store holds at most one record per link, and a
\* save_article_to_db call for a link that is already stored leaves every
\* stored record unchanged, does not insert, and raises nothing to its caller.
C1_OneRecordPerLink ==
    [][ /\ \A i, j \in DOMAIN articles' :
              articles'[i].link = articles'[j].link => i = j
        /\ (lastCall'.op = "save" /\ LinkStored(articles, lastCall'.link)) =>
              /\ articles' = articles
              /\ lastCall'.outcome # "inserted"
              /\ lastCall'.raised = NULL ]_vars

\* a save of a stored link took the duplicate path while the store held two
\* records
C1_Witness ==
    /\ lastCall.op = "save"
    /\ lastCall.outcome = "duplicate"
    /\ Cardinality(DOMAIN articles) = 2

C3_StoredAfterPublish ==
    [][ /\ \A id \in DOMAIN articles' \ DOMAIN articles :
              /\ ipc = "entries"
              /\ entries # << >>
              /\ articles'[id].link = Head(entries).link
              /\ channel' = Append(channel, articles'[id].link)
              /\ articles'[id].telegram_link = Len(channel')
        /\ \A id \in DOMAIN articles' :
              /\ articles'[id].telegram_link # NoLink
              /\ articles'[id].telegram_link \in 1..Len(channel')
              /\ channel'[articles'[id].telegram_link] = articles'[id].link ]_vars

\* a record is stored whose short post is the second message of the channel
C3_Witness ==
    \E id \in DOMAIN articles : articles[id].telegram_link = 2

\* C4 (Spec): a record is created with status_wp = pending, and a step of
\* intake, enrichment or purge changes the status_wp of a stored record only
\* from pending to published or from pending to failed.
C4_StatusOnlyLeavesPending ==
    [][ /\ \A id \in DOMAIN articles' \ DOMAIN articles :
              articles'[id].status_wp = "pending"
        /\ \A id \in DOMAIN articles \cap DOMAIN articles' :
              articles'[id].status_wp # articles[id].status_wp =>
                  /\ articles[id].status_wp = "pending"
                  /\ articles'[id].status_wp \in {"published", "failed"} ]_vars

\* one record has been published and another has failed
C4_Witness ==
    \E i, j \in DOMAIN articles :
        /\ articles[i].status_wp = "published"
        /\ articles[j].status_wp = "failed"

\* C5 (Spec): a published record has a wordpress_link; a pending or failed
\* record has none.
C5_LinkIffPublished ==
    \A id \in DOMAIN articles :
        /\ articles[id].status_wp \in Statuses
        /\ articles[id].status_wp = "published" => articles[id].wordpress_link # NoLink
        /\ articles[id].status_wp \in {"pending", "failed"} =>
              articles[id].wordpress_link = NoLink

\* a record published with the link of the second post, next to a failed
\* record without a link
C5_Witness ==
    \E i, j \in DOMAIN articles :
        /\ articles[i].status_wp = "published"
        /\ articles[i].wordpress_link = 2
        /\ articles[j].status_wp = "failed"
        /\ articles[j].wordpress_link = NoLink

\* C6 (Spec): no source link has two short posts in the channel.
C6_PublishedAtMostOnce ==
    \A i, j \in 1..Len(channel) : channel[i] = channel[j] => i = j

\* C7 (Spec): no stored record (a link, stored at a time) has two posts on
\* the site.
C7_PostCreatedAtMostOnce ==
    \A i, j \in 1..Len(wpPosts) : wpPosts[i] = wpPosts[j] => i = j

\* C8 (Spec): when the iteration of main_loop over a fetched record ends
\* without a published post because generation, taxonomy creation, image
\* upload or post creation failed, and the store takes the status update, the
\* record (if it is still stored) has status_wp = failed after the iteration.
C8_FailureEndsFailed ==
    [][ (wpc = "batch" /\ pending_articles # << >>) =>
          \A x \in RecordAnswers(wpPosts, Head(pending_articles)) :
             LET article == Head(pending_articles)
                 r == process_record(articles, wpPosts, article, x)
                 rest == IF r.effect.aborted THEN << >> ELSE Tail(pending_articles)
             IN  ( /\ r.failure # "none"
                   /\ ~x.dbError
                   /\ articles' = r.effect.table
                   /\ wpPosts' = r.effect.posts
                   /\ pending_articles' = rest
                   /\ RowMatches(articles', article) )
                 => articles'[article.id].status_wp = "failed" ]_vars

\* C9 (SpecStore): for every store content and every limit >= 0,
\* fetch_pending_articles returns rows of the store with status_wp = pending,
\* at most limit of them, in non-decreasing datetime order, and no pending
\* record left out is older than a returned one.
C9_FetchOldestPending ==
    lastCall.op = "fetch" =>
        LET rows == lastCall.result
            returned == { rows[i].id : i \in 1..Len(rows) }
        IN  /\ Len(rows) <= lastCall.limit
            /\ \A i \in 1..Len(rows) :
                  /\ RowMatches(articles, rows[i])
                  /\ articles[rows[i].id].status_wp = "pending"
            /\ \A i, j \in 1..Len(rows) : i < j => rows[i].id # rows[j].id
            /\ \A i, j \in 1..Len(rows) :
                  i < j => rows[i].datetime <= rows[j].datetime
            /\ \A id \in DOMAIN articles \ returned :
                  articles[id].status_wp = "pending" =>
                      \A i \in 1..Len(rows) : rows[i].datetime <= articles[id].datetime

\* a fetch with limit 1 returned one of two pending records stored at
\* different times
C9_Witness ==
    /\ lastCall.op = "fetch"
    /\ lastCall.limit = 1
    /\ Len(lastCall.result) = 1
    /\ \E i, j \in DOMAIN articles :
          /\ articles[i].status_wp = "pending"
          /\ articles[j].status_wp = "pending"
          /\ articles[i].datetime < articles[j].datetime

InCalls(name, calls) == \E i \in 1..Len(calls) : calls[i] = name

\* C11 (SpecEntry): on an empty store, an entry with a link for which the
\* judge answers not-similar, the page is fetched, the filter answers yes, the generator
\* returns a non-empty post, the publisher returns a link and the store takes
\* the INSERT, leaves exactly one record: the entry's link and title, the
\* returned telegram_link, status_wp = pending.
C11_OneEntryOneRecord ==
    [][ ( /\ lastCall'.op = "entry"
          /\ articles = << >>
          /\ lastCall'.entry.link # NULL
          /\ lastCall'.x.similar = "False"
          /\ lastCall'.x.fetched
          /\ lastCall'.x.filter = "True"
          /\ lastCall'.x.cleaned_text # ""
          /\ lastCall'.x.gen = "post"
          /\ lastCall'.x.published.telegram_link # NoLink
          /\ ~lastCall'.x.fault )
        => /\ Cardinality(DOMAIN articles') = 1
           /\ \A id \in DOMAIN articles' :
                 /\ articles'[id].link = lastCall'.entry.link
                 /\ articles'[id].title = lastCall'.entry.title
                 /\ articles'[id].telegram_link = lastCall'.x.published.telegram_link
                 /\ articles'[id].status_wp = "pending" ]_vars

\* the first entry met on the empty store was published and stored
C11_Witness ==
    /\ lastCall.op = "entry"
    /\ lastCall.outcome = "STORED"
    /\ lastCall.x.similar = "False"
    /\ lastCall.x.published.telegram_link = 1
    /\ Cardinality(DOMAIN articles) = 1

\* C12 (SpecEntry): an entry whose link is stored when it is examined is
\* skipped after the link lookup: no similarity, fetch, filter, generator or
\* publisher call, store and channel unchanged.
C12_StoredLinkSkipped ==
    [][ ( /\ lastCall'.op = "entry"
          /\ \E id \in DOMAIN articles : articles[id].link = lastCall'.entry.link )
        => /\ lastCall'.calls = << "exists_by_link" >>
           /\ lastCall'.outcome = "already_exists"
           /\ articles' = articles
           /\ channel' = channel ]_vars

\* a stored link was met again with answers that would have published it
C12_Witness ==
    /\ lastCall.op = "entry"
    /\ lastCall.outcome = "already_exists"
    /\ lastCall.x.similar = "False"
    /\ lastCall.x.fetched
    /\ lastCall.x.filter = "True"
    /\ lastCall.x.cleaned_text = "text"
    /\ lastCall.x.gen = "post"
    /\ lastCall.x.published.telegram_link # NoLink

\* C13 (SpecEntry): for an entry with a link that is not stored, a failed
\* judge (None) lets the entry go on to the page fetch and, when the page is
\* fetched, to clean_html and the filter; the entry is skipped as too_similar
\* exactly when the judge answered yes.
C13_JudgeFailsOpen ==
    (lastCall.op = "entry" /\ lastCall.outcome \notin {"already_exists", "raised"}) =>
        /\ lastCall.x.similar = NULL =>
              /\ InCalls("fetch", lastCall.calls)
              /\ lastCall.x.fetched =>
                    /\ InCalls("clean", lastCall.calls)
                    /\ InCalls("filter", lastCall.calls)
        /\ lastCall.outcome = "too_similar" <=> lastCall.x.similar = "True"
        /\ lastCall.x.similar # "True" => InCalls("fetch", lastCall.calls)

\* the judge failed and the entry was published and stored
C13_Witness ==
    /\ lastCall.op = "entry"
    /\ lastCall.x.similar = NULL
    /\ lastCall.outcome = "STORED"

\* C14 (SpecEntry): when the filter is asked and returns None or no, the
\* entry is rejected: no generator call, no publisher call, no record, the
\* channel unchanged.
C14_FilterFailsClosed ==
    [][ ( /\ lastCall'.op = "entry"
          /\ InCalls("filter", lastCall'.calls)
          /\ lastCall'.x.filter \in {NULL, "False"} )
        => /\ lastCall'.outcome = "filtered_out"
           /\ ~InCalls("generate", lastCall'.calls)
           /\ ~InCalls("publish", lastCall'.calls)
           /\ ~InCalls("save", lastCall'.calls)
           /\ articles' = articles
           /\ channel' = channel ]_vars

\* the filter returned None for an entry the other services would have
\* published
C14_Witness ==
    /\ lastCall.op = "entry"
    /\ lastCall.outcome = "filtered_out"
    /\ lastCall.x.filter = NULL
    /\ lastCall.x.cleaned_text = "text"
    /\ lastCall.x.gen = "post"
    /\ lastCall.x.published.telegram_link # NoLink

\* C15 (SpecEntry): when generate_content returns None or an empty post, the
\* entry is skipped: the publisher is not called, no record is created, the
\* channel is unchanged.
C15_NoPostNoPublish ==
    [][ ( /\ lastCall'.op = "entry"
          /\ InCalls("generate", lastCall'.calls)
          /\ generate_content(lastCall'.x.cleaned_text, lastCall'.x.gen) \in {NULL, ""} )
        => /\ lastCall'.outcome = "generation_failed"
           /\ ~InCalls("publish", lastCall'.calls)
           /\ ~InCalls("save", lastCall'.calls)
           /\ articles' = articles
           /\ channel' = channel ]_vars

\* the generator returned an empty post for an entry the publisher would have
\* taken
C15_Witness ==
    /\ lastCall.op = "entry"
    /\ lastCall.outcome = "generation_failed"
    /\ lastCall.x.cleaned_text = "text"
    /\ lastCall.x.gen = ""
    /\ lastCall.x.published.telegram_link # NoLink

\* C16 (SpecEntry): when the publisher is called it makes at most 3 send
\* attempts; a returned link is the link of the one message the successful
\* attempt added to the channel; no link is returned after 3 failed attempts
\* (or without a bot), the channel is then unchanged, save_article_to_db is
\* not called and no record is created.
C16_BoundedPublishRetry ==
    [][ ( /\ lastCall'.op = "entry"
          /\ InCalls("publish", lastCall'.calls) )
        => LET pub == lastCall'.x.published
           IN  /\ pub.attempts <= PUBLISH_ATTEMPTS
               /\ pub.telegram_link # NoLink =>
                     /\ pub.attempts >= 1
                     /\ channel' = Append(channel, lastCall'.entry.link)
                     /\ pub.telegram_link = Len(channel')
               /\ pub.telegram_link = NoLink =>
                     /\ pub.attempts \in {0, PUBLISH_ATTEMPTS}
                     /\ channel' = channel
                     /\ articles' = articles
                     /\ ~InCalls("save", lastCall'.calls)
                     /\ lastCall'.outcome = "publish_failed" ]_vars

\* three send attempts failed and the entry was skipped
C16_Witness ==
    /\ lastCall.op = "entry"
    /\ lastCall.outcome = "publish_failed"
    /\ lastCall.x.published.attempts = PUBLISH_ATTEMPTS

\* C17 (SpecEnrich): the iteration over a pending record whose cleaned_text
\* is NULL turns to no service over the network, and when the store takes the
\* update the record is failed afterwards.
C17_NullTextNoNetwork ==
    [][ ( /\ lastCall'.op = "record"
          /\ lastCall'.article.cleaned_text = NULL )
        => /\ lastCall'.network = << >>
           /\ lastCall'.failure = "generation"
           /\ ~lastCall'.x.dbError =>
                 articles'[lastCall'.article.id].status_wp = "failed" ]_vars

\* C19 (Spec): an iteration over a record of a batch that has later records
\* is followed by the iteration over the next record of the batch: the
\* records still to process are the rest of the batch.
C19_BatchGoesOn ==
    [][ ( /\ wpc = "batch"
          /\ Len(pending_articles) > 1
          /\ pending_articles' # pending_articles )
        => /\ wpc' = "batch"
           /\ pending_articles' = Tail(pending_articles) ]_vars

\* C20 (SpecEnrich): when the iteration over a record ends with a status the
\* store took, the status is published, with the link of the post created in
\* this iteration, exactly when the post creation returned the post and its
\* link; otherwise it is failed, without a link.
C20_PublishedIffPostCreated ==
    [][ ( /\ lastCall'.op = "record"
          /\ lastCall'.written # NULL )
        => LET id == lastCall'.article.id
               made == /\ lastCall'.failure \notin {"generation", "taxonomy", "image_upload"}
                       /\ lastCall'.x.create = "created"
           IN  /\ lastCall'.written \in {"published", "failed"}
               /\ lastCall'.written = "published" <=> made
               /\ articles'[id].status_wp = lastCall'.written
               /\ made => /\ wpPosts' = Append(wpPosts,
                                               [link |-> lastCall'.article.link,
                                                datetime |-> lastCall'.article.datetime])
                          /\ articles'[id].wordpress_link = Len(wpPosts')
               /\ ~made => articles'[id].wordpress_link = NoLink ]_vars

\* a post was created for a record and the record was published with the
\* post's link
C20_Witness ==
    /\ lastCall.op = "record"
    /\ lastCall.written = "published"
    /\ lastCall.x.create = "created"
    /\ articles[lastCall.article.id].wordpress_link = Len(wpPosts)

\* C18 (SpecTerms): for every list of suggested names and every existing
\* map, get_or_create_term_ids sends no create request for a name whose
\* trimmed lower-cased form is the name of an existing term, the site creates
\* at most one term per trimmed lower-cased name, and a name that got an id
\* earlier in the call gets the same id at every later occurrence without a
\* new request.
C18_OneTermPerName ==
    lastCall.op = "terms" =>
        LET res == lastCall.result
            existing == lastCall.existing_terms_map
            requested == res.requested
            resolved == res.resolved
        IN  /\ \A i \in 1..Len(requested) :
                  \A id \in DOMAIN existing :
                      StripLower(existing[id]) # requested[i].name
            /\ \A i, j \in 1..Len(requested) :
                  ( /\ i < j
                    /\ requested[i].name = requested[j].name )
                  => requested[i].answer \notin {"created", "term_exists"}
            /\ \A i, j \in 1..Len(resolved) :
                  ( /\ i < j
                    /\ resolved[i].name = resolved[j].name
                    /\ resolved[i].id # NoLink )
                  => resolved[j].id = resolved[i].id

\* the list AI, "ai ", ML against an empty map: one term created for ai and
\* reused, one for ML
C18_Witness ==
    /\ lastCall.op = "terms"
    /\ lastCall.suggested_names = << "AI", "ai ", "ML" >>
    /\ lastCall.existing_terms_map = << >>
    /\ Len(lastCall.result.requested) = 2
    /\ lastCall.result.final_ids = << 1, 1, 2 >>

\* the fields of a stored record other than status_wp and wordpress_link
OtherFields(row) ==
    [link |-> row.link, title |-> row.title, keywords |-> row.keywords,
     telegram_link |-> row.telegram_link, datetime |-> row.datetime,
     cleaned_text |-> row.cleaned_text, image_url |-> row.image_url]

\* C21 (Spec): a step of the enrichment loop neither inserts nor deletes a
\* record and changes no field of a stored record other than status_wp and
\* wordpress_link; a step of the intake loop changes no field of a record
\* that is stored before and after it: the loop over the entries only inserts
\* records, the purge only deletes records.
C21_StagesWriteDisjointFields ==
    [][ /\ (wpc' # wpc \/ pending_articles' # pending_articles) =>
              /\ DOMAIN articles' = DOMAIN articles
              /\ \A id \in DOMAIN articles :
                    OtherFields(articles'[id]) = OtherFields(articles[id])
        /\ (ipc' # ipc \/ entries' # entries \/ feeds_left' # feeds_left) =>
              /\ \A id \in DOMAIN articles \cap DOMAIN articles' :
                    articles'[id] = articles[id]
              /\ ipc # "cleanup" => DOMAIN articles \subseteq DOMAIN articles'
              /\ ipc # "entries" => DOMAIN articles' \subseteq DOMAIN articles ]_vars

\* the purge has deleted the first record and enrichment has published the
\* record stored after it
C21_Witness ==
    /\ 1 \notin DOMAIN articles
    /\ \E i \in DOMAIN articles :
          /\ articles[i].status_wp = "published"
          /\ articles[i].wordpress_link # NoLink
          /\ articles[i].telegram_link = 2

\* C22 (SpecStartup): a script started with one of its settings unset or
\* empty ends at start-up, before its loop polls a feed or starts a batch,
\* and a script that has entered its loop does not end.
C22_MissingSettingAbortsAtStartup ==
    [][ /\ ( /\ ipc = "start"
              /\ ipc' # ipc
              /\ \E s \in IntakeSettings : Unset(env.intake[s]) ) => ipc' = "exit"
        /\ ( /\ wpc = "start"
              /\ wpc' # wpc
              /\ \E s \in EnrichSettings : Unset(env.enrich[s]) ) => wpc' = "exit"
        /\ ipc' = "exit" => ipc \in {"start", "exit"}
        /\ wpc' = "exit" => wpc \in {"start", "exit"} ]_vars

\* the steps of one iteration of the intake loop, in the order of the code
StepOrder ==
    << "exists_by_link", "similarity", "fetch", "clean", "filter", "generate",
       "extract_image", "publish", "save" >>

\* C23 (SpecEntry): the steps an iteration over a feed entry goes through
\* are an initial part of: link lookup, similarity judge, page fetch,
\* clean_html, filter, generator, image lookup, publisher, store; and the
\* publisher is called exactly when the entry has a link that was not
\* stored, the judge did not answer yes, the page was fetched, the filter
\* answered yes and the generator returned a non-empty post.
C23_StepsInOrder ==
    [][ lastCall'.op = "entry" =>
          LET calls == lastCall'.calls
              x == lastCall'.x
              link == lastCall'.entry.link
          IN  /\ Len(calls) <= Len(StepOrder)
              /\ \A i \in 1..Len(calls) : calls[i] = StepOrder[i]
              /\ InCalls("publish", calls) <=>
                    /\ link # NULL
                    /\ ~LinkStored(articles, link)
                    /\ x.similar # "True"
                    /\ x.fetched
                    /\ x.filter = "True"
                    /\ generate_content(x.cleaned_text, x.gen) \notin {NULL, ""} ]_vars

\* an iteration went through all nine steps after the judge had failed
C23_Witness ==
    /\ lastCall.op = "entry"
    /\ lastCall.calls = StepOrder
    /\ lastCall.x.similar = NULL
    /\ Cardinality(DOMAIN articles) = 2

\* C24 (Spec): the list of titles the judge is given is read when the poll of
\* a feed starts: the titles of the stored records, at most 50, in
\* non-increasing datetime order; it stays the same from one entry of the
\* poll to the next, whatever the entries before stored.
C24_TitlesReadOncePerPoll ==
    [][ /\ (ipc = "feed" /\ ipc' = "entries") =>
              /\ articles' = articles
              /\ Len(existing_titles') = Min2(Cardinality(DOMAIN articles), TITLES_LIMIT)
              /\ \E s \in [1..Len(existing_titles') -> DOMAIN articles] :
                    /\ \A i, j \in DOMAIN s : i # j => s[i] # s[j]
                    /\ \A i \in DOMAIN s : existing_titles'[i] = articles[s[i]].title
                    /\ \A i, j \in DOMAIN s :
                          i < j => articles[s[i]].datetime >= articles[s[j]].datetime
                    /\ \A id \in DOMAIN articles :
                          (\A i \in DOMAIN s : s[i] # id) =>
                              \A i \in DOMAIN s :
                                  articles[s[i]].datetime >= articles[id].datetime
        /\ (ipc = "entries" /\ ipc' = "entries") =>
              existing_titles' = existing_titles ]_vars

\* in the middle of a poll a record is stored whose title is not in the list
\* the next entry is compared against
C24_Witness ==
    /\ ipc = "entries"
    /\ entries # << >>
    /\ \E id \in DOMAIN articles :
          \A i \in 1..Len(existing_titles) : existing_titles[i] # articles[id].title

\* C25 (SpecTermsBatch): a term created while the names of one record were
\* resolved is in the snapshot the next record of the batch is resolved
\* against: no create request is sent for a name of the next record with
\* the same trimmed lower-cased form, the name gets no other id than the
\* created term's, and it gets that id when the call returns.
C25_CreatedTermSeenByNextRecord ==
    lastCall.op = "terms_next" =>
        \A c \in lastCall.created :
            /\ \E id \in DOMAIN lastCall.existing_terms_map :
                  /\ id = c.id
                  /\ StripLower(lastCall.existing_terms_map[id]) = c.name
            /\ \A i \in 1..Len(lastCall.result.requested) :
                  lastCall.result.requested[i].name # c.name
            /\ \A i \in 1..Len(lastCall.suggested_names) :
                  ( /\ lastCall.result.raised = NULL
                    /\ StripLower(lastCall.suggested_names[i]) = c.name ) =>
                      \E k \in 1..Len(lastCall.result.resolved) :
                          /\ lastCall.result.resolved[k].name = c.name
                          /\ lastCall.result.resolved[k].id = c.id
            /\ \A k \in 1..Len(lastCall.result.resolved) :
                  lastCall.result.resolved[k].name = c.name =>
                      lastCall.result.resolved[k].id = c.id

\* the record before created the term AI with an empty snapshot; the next
\* record suggested "ai " and ML: ai resolved to the created term, one
\* request sent, for ML
C25_Witness ==
    /\ lastCall.op = "terms_next"
    /\ lastCall.created = { [name |-> "ai", id |-> 1] }
    /\ lastCall.suggested_names = << "ai ", "ML" >>
    /\ Len(lastCall.result.requested) = 1
    /\ lastCall.result.requested[1].name = "ml"
    /\ lastCall.result.final_ids = << 1, 2 >>

\* C26 (Spec): a failure while one entry of a feed is processed does not end
\* the poll of the feed: whenever an entry is taken from a feed that has
\* later entries, the poll goes on with exactly those later entries.
C26_EntryFailureKeepsPoll ==
    [][ ( /\ ipc = "entries"
          /\ Len(entries) > 1
          /\ entries' # entries ) =>
            ( /\ ipc' = "entries"
              /\ entries' = Tail(entries) ) ]_vars

\* C27 (Spec): after an error reached the outer loop of a pipeline the next
\* cycle starts only after the scheduled wait: the poll of the first feed
\* starts from the wait for the next hour and from nowhere else, a batch
\* starts from the sleep between batches and from nowhere else, and neither
\* loop ends.
C27_NextCycleOnlyAfterWait ==
    [][ /\ ( ipc' = "feed" /\ ipc \notin {"feed", "entries"} ) => ipc = "wait"
        /\ ( wpc' = "batch" /\ wpc # "batch" ) => wpc = "sleep"
        /\ ipc' # "exit"
        /\ wpc' # "exit" ]_vars

\* C28 (SpecEnrich): when the iteration over a record reaches the image step
\* and the download fails or the upload gives no media id, the iteration is
\* not aborted: the post request is sent, without a featured image, and the
\* iteration ends at the status update of step 6.
C28_ImageFailureKeepsRecord ==
    ( /\ lastCall.op = "record"
      /\ InCalls("image_host", lastCall.network)
      /\ ~lastCall.x.download \/ lastCall.x.upload.media_id = NoLink )
    => /\ ~lastCall.aborted
       /\ InCalls("wp_posts", lastCall.network)
       /\ lastCall.featured_media_id = NoLink
       /\ lastCall.failure \in {"none", "post"}

\* C29 (SpecEnrich): when the supplementary search is called for a record
\* and fails (an HTTP error, or the request itself raises), the iteration is
\* not ended by the search: the list of supplementary urls is empty and the
\* next thing the iteration turns to is the generator.
C29_SearchFailureKeepsRecord ==
    ( /\ lastCall.op = "record"
      /\ InCalls("search", lastCall.network)
      /\ lastCall.x.search \in {"http_error", "conn_error"} )
    => /\ lastCall.failure # "search"
       /\ lastCall.supplementary_urls = << >>
       /\ lastCall.aborted => lastCall.failure \in {"taxonomy", "image_upload"}
       /\ lastCall.article.cleaned_text # NULL =>
              /\ Len(lastCall.network) >= 2
              /\ lastCall.network[1] = "search"
              /\ lastCall.network[2] = "generator"
       /\ lastCall.article.cleaned_text = NULL => lastCall.failure = "generation"

\* the request of the search raised, and the record was published
C29_Witness ==
    /\ lastCall.op = "record"
    /\ lastCall.x.search = "conn_error"
    /\ lastCall.network[1] = "search"
    /\ lastCall.supplementary_urls = << >>
    /\ lastCall.written = "published"

\* C30 (SpecEnrich): the supplementary search is called for a record exactly
\* when the record has a stored title and the search key and the engine id
\* are both set; for a record without a stored title, or with a credential
\* missing, no search request is sent.
C30_SearchIffTitleAndCredentials ==
    lastCall.op = "record" =>
        ( InCalls("search", lastCall.network)
            <=> ( /\ lastCall.article.title # NULL
                  /\ lastCall.x.search_key
                  /\ lastCall.x.cse_id ) )

\* C31 (SpecEnrich): when the generator is called for a record and answers
\* with an empty response, with text that is not JSON, with an object that
\* lacks a required key, or with an exception, the iteration turns to the
\* generator once and to no taxonomy, image or post service after it, creates
\* no post, is not aborted (the loop goes on with the next record), and, when
\* the store takes the update, leaves the record failed.
C31_InvalidGenerationFailsRecord ==
    [][ ( /\ lastCall'.op = "record"
          /\ lastCall'.article.cleaned_text # NULL
          /\ lastCall'.x.gen \in GeminiAnswers \ {"data"} )
        => /\ lastCall'.failure = "generation"
           /\ ~lastCall'.aborted
           /\ Len(SelectSeq(lastCall'.network, LAMBDA n : n = "generator")) = 1
           /\ \A n \in {"wp_terms", "image_host", "wp_media", "wp_posts"} :
                  ~InCalls(n, lastCall'.network)
           /\ lastCall'.network[Len(lastCall'.network)] = "generator"
           /\ wpPosts' = wpPosts
           /\ ~lastCall'.x.dbError =>
                  /\ lastCall'.written = "failed"
                  /\ articles'[lastCall'.article.id].status_wp = "failed" ]_vars

\* the generator returned an object without a required key: the record was
\* failed after the search and the generator, and nothing else, were asked
C31_Witness ==
    /\ lastCall.op = "record"
    /\ lastCall.x.gen = "missing_key"
    /\ lastCall.network = << "search", "generator" >>
    /\ lastCall.written = "failed"
    /\ articles[lastCall.article.id].status_wp = "failed"

\* C32 (SpecEnrich): when a post was created for a record and the metadata
\* update for it fails, the iteration is not aborted and ends exactly as it
\* would have with a metadata update that succeeded: same status written,
\* same store, same posts; and the status update of step 6 is attempted
\* (it is written whenever the store takes it).
C32_MetaFailureKeepsStatus ==
    [][ ( /\ lastCall'.op = "record"
          /\ InCalls("wp_meta", lastCall'.network)
          /\ ~lastCall'.x.meta.ok )
        => LET y == [lastCall'.x EXCEPT !.meta = update_post_meta("updated")]
               r == process_record(articles, wpPosts, lastCall'.article, y)
           IN  /\ ~lastCall'.aborted
               /\ lastCall'.failure \in {"none", "post"}
               /\ lastCall'.written = r.written
               /\ articles' = r.effect.table
               /\ wpPosts' = r.effect.posts
               /\ ~lastCall'.x.dbError =>
                      /\ lastCall'.written = terminal_status(
                             IF lastCall'.x.create = "created" THEN Len(wpPosts') ELSE NoLink)
                      /\ articles'[lastCall'.article.id].status_wp = lastCall'.written ]_vars

\* a post was created, its metadata update failed, and the record was
\* published with the post's link
C32_Witness ==
    /\ lastCall.op = "record"
    /\ InCalls("wp_meta", lastCall.network)
    /\ ~lastCall.x.meta.ok
    /\ lastCall.written = "published"
    /\ articles[lastCall.article.id].wordpress_link = Len(wpPosts)

\* C33 (Spec): records leave the store only in the retention sweep of the
\* intake loop, and the sweep runs only when every feed of the cycle has been
\* polled and no entry of a feed is left to process, and is followed by the
\* wait for the next cycle; the step that processes a feed entry (link
\* lookup to INSERT) removes no record.
C33_SweepOnlyBetweenCycles ==
    [][ /\ ( \E id \in DOMAIN articles : id \notin DOMAIN articles' ) =>
              /\ ipc = "cleanup"
              /\ feeds_left = 0
              /\ entries = << >>
              /\ articles' = cleanup_old_articles(articles, now)
              /\ ipc' = "wait"
        /\ ipc = "entries" => \A id \in DOMAIN articles :
                                  id \in DOMAIN articles' /\ articles'[id].link = articles[id].link
        /\ ( ipc' = "cleanup" /\ ipc # "cleanup" ) =>
              /\ ipc \in {"feed", "entries"}
              /\ feeds_left' = 0
              /\ entries' = << >> ]_vars

\* the sweep has purged the record stored first while a record stored in a
\* later cycle is kept, and the loop is at its wait
C33_Witness ==
    /\ ipc = "wait"
    /\ now = MaxNow
    /\ 1 \notin DOMAIN articles
    /\ \E id \in DOMAIN articles : articles[id].datetime = MaxNow - RETENTION_WEEKS

\* C34 (SpecSchema): ensure_database_exists leaves a table with every column
\* it had before and, of other columns, only columns of cleaned_text,
\* image_url, status_wp, wordpress_link that were missing; it keeps every row
\* and every value of a row in the columns that existed; a table that was
\* absent is created with all columns; and a run after a run in which no
\* ALTER failed changes neither the columns nor the rows.
C34_MigrationAdditiveIdempotent ==
    [][ lastCall'.op = "ensure" =>
          LET before == lastCall'.before
              after == lastCall'.db
          IN  /\ after.exists
              /\ before.columns \subseteq after.columns
              /\ after.columns \ before.columns \subseteq
                    IF before.exists THEN columns_to_add
                    ELSE BaseColumns \cup columns_to_add
              /\ DOMAIN after.rows = DOMAIN before.rows
              /\ \A id \in DOMAIN before.rows : \A c \in before.columns :
                    after.rows[id][c] = before.rows[id][c]
              /\ lastCall'.failed = {} =>
                    /\ columns_to_add \subseteq after.columns
                    /\ \A f \in SUBSET columns_to_add :
                          ensure_database_exists(after, f) = after
              /\ columns_to_add \subseteq before.columns => after = before ]_vars

\* a table with two rows, a column of another tool and without cleaned_text
\* and status_wp was migrated: the rows are kept and are pending
C34_Witness ==
    /\ lastCall.op = "ensure"
    /\ lastCall.before.exists
    /\ lastCall.before.columns = BaseColumns \cup {"note", "image_url", "wordpress_link"}
    /\ DOMAIN lastCall.before.rows = {1, 2}
    /\ lastCall.db.columns = lastCall.before.columns \cup {"cleaned_text", "status_wp"}
    /\ lastCall.db.rows[2]["status_wp"] = "pending"
    /\ lastCall.db.rows[2]["note"] = "v"

\* C35 (SpecStore): a call of update_article_status with a status other than
\* published and failed returns False and leaves the store as it was; a call
\* with failed, whatever link is passed with it, changes at most status_wp of
\* the record with the given id, to failed, and nothing when it returns False.
C35_OnlyPublishedOrFailed ==
    [][ lastCall'.op = "update" =>
          /\ lastCall'.status \notin {"published", "failed"} =>
                /\ ~lastCall'.ok
                /\ articles' = articles
          /\ lastCall'.status = "failed" =>
                /\ DOMAIN articles' = DOMAIN articles
                /\ \A id \in DOMAIN articles :
                      articles'[id] =
                         IF id = lastCall'.id /\ lastCall'.ok
                         THEN [articles[id] EXCEPT !.status_wp = "failed"]
                         ELSE articles[id] ]_vars

\* a record published with a link was then marked failed: the link is kept
C35_Witness ==
    /\ lastCall.op = "update"
    /\ lastCall.status = "failed"
    /\ lastCall.ok
    /\ lastCall.id \in DOMAIN articles
    /\ articles[lastCall.id].status_wp = "failed"
    /\ articles[lastCall.id].wordpress_link # NoLink

\* C36 (SpecCleaner): clean_html returns the text when the parsing ends in
\* time, and the empty string when the parsing raises or takes longer than
\* the timeout; and it does not wait for a parsing that is still running at
\* the timeout: it never takes longer than the timeout to return.
C36_CleanerReturnsInTime ==
    lastCall.op = "clean" =>
        /\ lastCall.caller = "returned" =>
              lastCall.value =
                 IF lastCall.parse_time > CLEAN_TIMEOUT \/ lastCall.raises THEN ""
                 ELSE IF lastCall.parse_time < CLEAN_TIMEOUT THEN "text"
                 ELSE lastCall.value
        /\ lastCall.caller = "returned" => lastCall.value \in {"", "text"}
        /\ lastCall.elapsed <= CLEAN_TIMEOUT

\* C37 (SpecLive): with both loops running and time passing, a stored
\* pending record that the clock can outlive (stored more than the retention
\* period before the last week of the clock) is eventually published, failed
\* or purged.
C37_PendingEventuallySettled ==
    \A id \in 1..MaxMessages :
        ( /\ id \in DOMAIN articles
          /\ articles[id].status_wp = "pending"
          /\ articles[id].datetime < MaxNow - RETENTION_WEEKS )
        ~> ( id \notin DOMAIN articles \/ articles[id].status_wp # "pending" )

\* C38 (Spec): under every interleaving of the enrichment batch with the
\* inserts and the purge of the intake loop, when the iteration over a
\* fetched record created a post with a link and the store took the status
\* update: if the record is still stored it is published with the link of
\* the post and no other record changes; if it was purged in the meantime
\* the update changes nothing: the record is not back and no other record
\* is touched.
C38_UpdateReachesOnlyItsRecord ==
    [][ (wpc = "batch" /\ pending_articles # << >> /\ Len(wpPosts') = Len(wpPosts) + 1) =>
          \A x \in RecordAnswers(wpPosts, Head(pending_articles)) :
             LET article == Head(pending_articles)
                 r == process_record(articles, wpPosts, article, x)
             IN  ( /\ r.written = "published"
                   /\ articles' = r.effect.table
                   /\ wpPosts' = r.effect.posts )
                 => IF RowMatches(articles, article)
                    THEN /\ DOMAIN articles' = DOMAIN articles
                         /\ articles'[article.id] =
                               [articles[article.id] EXCEPT
                                   !.status_wp = "published",
                                   !.wordpress_link = Len(wpPosts')]
                         /\ \A id \in DOMAIN articles \ {article.id} :
                               articles'[id] = articles[id]
                    ELSE articles' = articles ]_vars

\* C39 (SpecEntry): an entry whose page was fetched and whose cleaned text is
\* empty (the cleaner timed out, the parsing raised, or the page holds no
\* text) is not published and not stored, whatever the topic filter and the
\* model answer: the iteration calls neither the publisher nor the store and
\* leaves channel and store as they were, and when the filter lets the entry
\* through, generate_content returns no post.
C39_BlankTextNeverPublished ==
    [][ ( /\ lastCall'.op = "entry"
          /\ lastCall.op # "entry"
          /\ InCalls("clean", lastCall'.calls)
          /\ lastCall'.x.cleaned_text = "" )
        => /\ ~InCalls("publish", lastCall'.calls)
           /\ ~InCalls("save", lastCall'.calls)
           /\ channel' = channel
           /\ articles' = articles
           /\ lastCall'.outcome \in {"filtered_out", "generation_failed"}
           /\ lastCall'.x.filter = "True" =>
                 /\ lastCall'.outcome = "generation_failed"
                 /\ generate_content(lastCall'.x.cleaned_text, lastCall'.x.gen) = NULL
      ]_vars

\* the filter accepted an entry with empty cleaned text, the model would have
\* written a post and the channel would have taken it: the entry ended at
\* the generation step
C39_Witness ==
    /\ lastCall.op = "entry"
    /\ InCalls("clean", lastCall.calls)
    /\ lastCall.x.cleaned_text = ""
    /\ lastCall.x.filter = "True"
    /\ lastCall.x.gen = "post"
    /\ lastCall.x.published.telegram_link # NoLink
    /\ lastCall.outcome = "generation_failed"

\* C40 (SpecBatch): when the categories or the tags cannot be fetched at the
\* start of a batch, the batch is skipped: no record is left to process, no
\* service other than the two taxonomy endpoints is called in the pass, every
\* fetched record is still stored with status_wp = pending, and the next
\* pass, when the store answers, fetches the records again.
C40_SnapshotFailureSkipsBatch ==
    lastCall.op = "cycle" =>
        LET skipped(c) ==
                /\ c.op = "cycle"
                /\ c.fetched # << >>
                /\ (c.taxonomies.categories_map = NULL \/ c.taxonomies.tags_map = NULL)
        IN  /\ skipped(lastCall) =>
                /\ lastCall.left = << >>
                /\ lastCall.called \subseteq {"wp_categories", "wp_tags"}
                /\ \A i \in 1..Len(lastCall.fetched) :
                      /\ RowMatches(articles, lastCall.fetched[i])
                      /\ articles[lastCall.fetched[i].id].status_wp = "pending"
            /\ (skipped(lastCall.before) /\ ~lastCall.dbError) =>
                  \A i \in 1..Len(lastCall.before.fetched) :
                     \E j \in 1..Len(lastCall.fetched) :
                        lastCall.fetched[j] = lastCall.before.fetched[i]

\* a pass fetched two records and the categories but not the tags; the next
\* pass fetched the two records again, got both taxonomies and went on to
\* the generator
C40_Witness ==
    /\ lastCall.op = "cycle"
    /\ lastCall.before # NoCall
    /\ Len(lastCall.before.fetched) = 2
    /\ lastCall.before.taxonomies.categories_map # NULL
    /\ lastCall.before.taxonomies.tags_map = NULL
    /\ lastCall.before.taxonomies.requests = {"wp_categories", "wp_tags"}
    /\ Len(lastCall.fetched) = 2
    /\ taxonomies_fetched(lastCall.taxonomies)
    /\ "generator" \in lastCall.called

====
